---- MODULE Spec2Model ----
(***************************************************************************)
(* Model of src/script.js: a browser client that keeps a cache (allMovies) *)
(* of a REST collection, renders it, filters it, and reports errors in a   *)
(* notification slot that a 5-second timer blanks.                         *)
(*                                                                         *)
(* JavaScript strings are sequences of one-character strings.  A movie is  *)
(* a record; a field the JSON object does not carry is absent from the     *)
(* record's DOMAIN.  Time is counted in seconds.                           *)
(***************************************************************************)
EXTENDS Integers, Sequences, FiniteSets, TLC

VARIABLES
  allMovies,    \* script.js:15   the cache
  display,      \* movieListEl's content as renderMovies leaves it
  searchValue,  \* searchInput.value
  form,         \* the add form's fields (title, genre, year)
  errEl,        \* how many #mm-error elements the document holds
  errText,      \* its textContent
  timers,       \* pending setTimeout callbacks: seconds left, oldest first
  started,      \* DOMContentLoaded has fired
  net,          \* every request issued so far, in issue order, with its stage
  lastHandled,  \* history: the settled request whose continuation ran last
  db,           \* the remote collection
  nextId        \* the id the remote store assigns next

vars == <<allMovies, display, searchValue, form, errEl, errText, timers,
          started, net, lastHandled, db, nextId>>

----------------------------------------------------------------------------
(* Bounds *)

MaxReq == 3      \* requests issued in one run
MaxTimers == 2   \* pending timers
MaxDb == 3       \* movies in the remote collection

(* Program constant: setTimeout(..., 5000), in seconds *)
Delay == 5

----------------------------------------------------------------------------
(* JavaScript string helpers *)

(* A string is the sequence of its UTF-16 code units, each written as a    *)
(* one-character string; a code unit this module's text cannot hold is     *)
(* written U+ followed by its four hexadecimal digits.                     *)

\* The code units String.prototype.toLowerCase changes and, at the same
\* index of LowerCase, their images; U+0130 is in LowerPoint
UpperCase ==
  <<"A","B","C","D","E","F","G","H","I","J","K","L","M","N","O","P","Q","R",
  "S","T","U","V","W","X","Y","Z","À","Á","Â","Ã","Ä","Å","Æ","Ç","È","É",
  "Ê","Ë","Ì","Í","Î","Ï","Ð","Ñ","Ò","Ó","Ô","Õ","Ö","Ø","Ù","Ú","Û","Ü",
  "Ý","Þ","U+0100","U+0102","U+0104","U+0106","U+0108","U+010A","U+010C",
  "U+010E","U+0110","U+0112","U+0114","U+0116","U+0118","U+011A","U+011C",
  "U+011E","U+0120","U+0122","U+0124","U+0126","U+0128","U+012A","U+012C",
  "U+012E","U+0132","U+0134","U+0136","U+0139","U+013B","U+013D","U+013F",
  "U+0141","U+0143","U+0145","U+0147","U+014A","U+014C","U+014E","U+0150",
  "U+0152","U+0154","U+0156","U+0158","U+015A","U+015C","U+015E","U+0160",
  "U+0162","U+0164","U+0166","U+0168","U+016A","U+016C","U+016E","U+0170",
  "U+0172","U+0174","U+0176","U+0178","U+0179","U+017B","U+017D","Ɓ","Ƃ",
  "Ƅ","Ɔ","Ƈ","Ɖ","Ɗ","Ƌ","Ǝ","Ə","Ɛ","Ƒ","Ɠ","Ɣ","Ɩ","Ɨ","Ƙ","Ɯ","Ɲ","Ɵ",
  "Ơ","Ƣ","Ƥ","Ʀ","Ƨ","Ʃ","Ƭ","Ʈ","Ư","Ʊ","Ʋ","Ƴ","Ƶ","Ʒ","Ƹ","Ƽ","Ǆ","ǅ",
  "Ǉ","ǈ","Ǌ","ǋ","Ǎ","Ǐ","Ǒ","Ǔ","Ǖ","Ǘ","Ǚ","Ǜ","Ǟ","Ǡ","Ǣ","Ǥ","Ǧ","Ǩ",
  "Ǫ","Ǭ","Ǯ","Ǳ","ǲ","Ǵ","Ƕ","Ƿ","Ǹ","Ǻ","Ǽ","Ǿ","U+0200","U+0202",
  "U+0204","U+0206","U+0208","U+020A","U+020C","U+020E","U+0210","U+0212",
  "U+0214","U+0216","U+0218","U+021A","U+021C","U+021E","U+0220","U+0222",
  "U+0224","U+0226","U+0228","U+022A","U+022C","U+022E","U+0230","U+0232",
  "U+023A","U+023B","U+023D","U+023E","U+0241","U+0243","U+0244","U+0245",
  "U+0246","U+0248","U+024A","U+024C","U+024E","U+0370","U+0372","U+0376",
  "U+037F","Ά","Έ","Ή","Ί","Ό","Ύ","Ώ","Α","Β","Γ","Δ","Ε","Ζ","Η","Θ","Ι",
  "Κ","Λ","Μ","Ν","Ξ","Ο","Π","Ρ","Σ","Τ","Υ","Φ","Χ","Ψ","Ω","Ϊ","Ϋ","Ϗ",
  "Ϙ","Ϛ","Ϝ","Ϟ","Ϡ","Ϣ","Ϥ","Ϧ","Ϩ","Ϫ","Ϭ","Ϯ","ϴ","Ϸ","Ϲ","Ϻ","Ͻ","Ͼ",
  "Ͽ","U+0400","U+0401","U+0402","U+0403","U+0404","U+0405","U+0406",
  "U+0407","U+0408","U+0409","U+040A","U+040B","U+040C","U+040D","U+040E",
  "U+040F","U+0410","U+0411","U+0412","U+0413","U+0414","U+0415","U+0416",
  "U+0417","U+0418","U+0419","U+041A","U+041B","U+041C","U+041D","U+041E",
  "U+041F","U+0420","U+0421","U+0422","U+0423","U+0424","U+0425","U+0426",
  "U+0427","U+0428","U+0429","U+042A","U+042B","U+042C","U+042D","U+042E",
  "U+042F","U+0460","U+0462","U+0464","U+0466","U+0468","U+046A","U+046C",
  "U+046E","U+0470","U+0472","U+0474","U+0476","U+0478","U+047A","U+047C",
  "U+047E","Ҁ","Ҋ","Ҍ","Ҏ","Ґ","Ғ","Ҕ","Җ","Ҙ","Қ","Ҝ","Ҟ","Ҡ","Ң","Ҥ","Ҧ",
  "Ҩ","Ҫ","Ҭ","Ү","Ұ","Ҳ","Ҵ","Ҷ","Ҹ","Һ","Ҽ","Ҿ","Ӏ","Ӂ","Ӄ","Ӆ","Ӈ","Ӊ",
  "Ӌ","Ӎ","Ӑ","Ӓ","Ӕ","Ӗ","Ә","Ӛ","Ӝ","Ӟ","Ӡ","Ӣ","Ӥ","Ӧ","Ө","Ӫ","Ӭ","Ӯ",
  "Ӱ","Ӳ","Ӵ","Ӷ","Ӹ","Ӻ","Ӽ","Ӿ","U+0500","U+0502","U+0504","U+0506",
  "U+0508","U+050A","U+050C","U+050E","U+0510","U+0512","U+0514","U+0516",
  "U+0518","U+051A","U+051C","U+051E","U+0520","U+0522","U+0524","U+0526",
  "U+0528","U+052A","U+052C","U+052E","U+0531","U+0532","U+0533","U+0534",
  "U+0535","U+0536","U+0537","U+0538","U+0539","U+053A","U+053B","U+053C",
  "U+053D","U+053E","U+053F","U+0540","U+0541","U+0542","U+0543","U+0544",
  "U+0545","U+0546","U+0547","U+0548","U+0549","U+054A","U+054B","U+054C",
  "U+054D","U+054E","U+054F","U+0550","U+0551","U+0552","U+0553","U+0554",
  "U+0555","U+0556","Ⴀ","Ⴁ","Ⴂ","Ⴃ","Ⴄ","Ⴅ","Ⴆ","Ⴇ","Ⴈ","Ⴉ","Ⴊ","Ⴋ","Ⴌ","Ⴍ",
  "Ⴎ","Ⴏ","Ⴐ","Ⴑ","Ⴒ","Ⴓ","Ⴔ","Ⴕ","Ⴖ","Ⴗ","Ⴘ","Ⴙ","Ⴚ","Ⴛ","Ⴜ","Ⴝ","Ⴞ","Ⴟ",
  "Ⴠ","Ⴡ","Ⴢ","Ⴣ","Ⴤ","Ⴥ","Ⴧ","Ⴭ","Ꭰ","Ꭱ","Ꭲ","Ꭳ","Ꭴ","Ꭵ","Ꭶ","Ꭷ","Ꭸ","Ꭹ",
  "Ꭺ","Ꭻ","Ꭼ","Ꭽ","Ꭾ","Ꭿ","Ꮀ","Ꮁ","Ꮂ","Ꮃ","Ꮄ","Ꮅ","Ꮆ","Ꮇ","Ꮈ","Ꮉ","Ꮊ","Ꮋ",
  "Ꮌ","Ꮍ","Ꮎ","Ꮏ","Ꮐ","Ꮑ","Ꮒ","Ꮓ","Ꮔ","Ꮕ","Ꮖ","Ꮗ","Ꮘ","Ꮙ","Ꮚ","Ꮛ","Ꮜ","Ꮝ",
  "Ꮞ","Ꮟ","Ꮠ","Ꮡ","Ꮢ","Ꮣ","Ꮤ","Ꮥ","Ꮦ","Ꮧ","Ꮨ","Ꮩ","Ꮪ","Ꮫ","Ꮬ","Ꮭ","Ꮮ","Ꮯ",
  "Ꮰ","Ꮱ","Ꮲ","Ꮳ","Ꮴ","Ꮵ","Ꮶ","Ꮷ","Ꮸ","Ꮹ","Ꮺ","Ꮻ","Ꮼ","Ꮽ","Ꮾ","Ꮿ","Ᏸ","Ᏹ",
  "Ᏺ","Ᏻ","Ᏼ","Ᏽ","Ᲊ","Ა","Ბ","Გ","Დ","Ე","Ვ","Ზ","Თ","Ი","Კ","Ლ","Მ","Ნ",
  "Ო","Პ","Ჟ","Რ","Ს","Ტ","Უ","Ფ","Ქ","Ღ","Ყ","Შ","Ჩ","Ც","Ძ","Წ","Ჭ","Ხ",
  "Ჯ","Ჰ","Ჱ","Ჲ","Ჳ","Ჴ","Ჵ","Ჶ","Ჷ","Ჸ","Ჹ","Ჺ","Ჽ","Ჾ","Ჿ","U+1E00",
  "U+1E02","U+1E04","U+1E06","U+1E08","U+1E0A","U+1E0C","U+1E0E","U+1E10",
  "U+1E12","U+1E14","U+1E16","U+1E18","U+1E1A","U+1E1C","U+1E1E","U+1E20",
  "U+1E22","U+1E24","U+1E26","U+1E28","U+1E2A","U+1E2C","U+1E2E","U+1E30",
  "U+1E32","U+1E34","U+1E36","U+1E38","U+1E3A","U+1E3C","U+1E3E","U+1E40",
  "U+1E42","U+1E44","U+1E46","U+1E48","U+1E4A","U+1E4C","U+1E4E","U+1E50",
  "U+1E52","U+1E54","U+1E56","U+1E58","U+1E5A","U+1E5C","U+1E5E","U+1E60",
  "U+1E62","U+1E64","U+1E66","U+1E68","U+1E6A","U+1E6C","U+1E6E","U+1E70",
  "U+1E72","U+1E74","U+1E76","U+1E78","U+1E7A","U+1E7C","U+1E7E","Ẁ","Ẃ",
  "Ẅ","Ẇ","Ẉ","Ẋ","Ẍ","Ẏ","Ẑ","Ẓ","Ẕ","ẞ","Ạ","Ả","Ấ","Ầ","Ẩ","Ẫ","Ậ","Ắ",
  "Ằ","Ẳ","Ẵ","Ặ","Ẹ","Ẻ","Ẽ","Ế","Ề","Ể","Ễ","Ệ","Ỉ","Ị","Ọ","Ỏ","Ố","Ồ",
  "Ổ","Ỗ","Ộ","Ớ","Ờ","Ở","Ỡ","Ợ","Ụ","Ủ","Ứ","Ừ","Ử","Ữ","Ự","Ỳ","Ỵ","Ỷ",
  "Ỹ","Ỻ","Ỽ","Ỿ","U+1F08","U+1F09","U+1F0A","U+1F0B","U+1F0C","U+1F0D",
  "U+1F0E","U+1F0F","U+1F18","U+1F19","U+1F1A","U+1F1B","U+1F1C","U+1F1D",
  "U+1F28","U+1F29","U+1F2A","U+1F2B","U+1F2C","U+1F2D","U+1F2E","U+1F2F",
  "U+1F38","U+1F39","U+1F3A","U+1F3B","U+1F3C","U+1F3D","U+1F3E","U+1F3F",
  "U+1F48","U+1F49","U+1F4A","U+1F4B","U+1F4C","U+1F4D","U+1F59","U+1F5B",
  "U+1F5D","U+1F5F","U+1F68","U+1F69","U+1F6A","U+1F6B","U+1F6C","U+1F6D",
  "U+1F6E","U+1F6F","ᾈ","ᾉ","ᾊ","ᾋ","ᾌ","ᾍ","ᾎ","ᾏ","ᾘ","ᾙ","ᾚ","ᾛ","ᾜ","ᾝ",
  "ᾞ","ᾟ","ᾨ","ᾩ","ᾪ","ᾫ","ᾬ","ᾭ","ᾮ","ᾯ","Ᾰ","Ᾱ","Ὰ","Ά","ᾼ","Ὲ","Έ","Ὴ",
  "Ή","ῌ","Ῐ","Ῑ","Ὶ","Ί","Ῠ","Ῡ","Ὺ","Ύ","Ῥ","Ὸ","Ό","Ὼ","Ώ","ῼ","U+2126",
  "U+212A","U+212B","U+2132","U+2160","U+2161","U+2162","U+2163","U+2164",
  "U+2165","U+2166","U+2167","U+2168","U+2169","U+216A","U+216B","U+216C",
  "U+216D","U+216E","U+216F","Ↄ","Ⓐ","Ⓑ","Ⓒ","Ⓓ","Ⓔ","Ⓕ","Ⓖ","Ⓗ","Ⓘ","Ⓙ",
  "Ⓚ","Ⓛ","Ⓜ","Ⓝ","Ⓞ","Ⓟ","Ⓠ","Ⓡ","Ⓢ","Ⓣ","Ⓤ","Ⓥ","Ⓦ","Ⓧ","Ⓨ","Ⓩ","U+2C00",
  "U+2C01","U+2C02","U+2C03","U+2C04","U+2C05","U+2C06","U+2C07","U+2C08",
  "U+2C09","U+2C0A","U+2C0B","U+2C0C","U+2C0D","U+2C0E","U+2C0F","U+2C10",
  "U+2C11","U+2C12","U+2C13","U+2C14","U+2C15","U+2C16","U+2C17","U+2C18",
  "U+2C19","U+2C1A","U+2C1B","U+2C1C","U+2C1D","U+2C1E","U+2C1F","U+2C20",
  "U+2C21","U+2C22","U+2C23","U+2C24","U+2C25","U+2C26","U+2C27","U+2C28",
  "U+2C29","U+2C2A","U+2C2B","U+2C2C","U+2C2D","U+2C2E","U+2C2F","U+2C60",
  "U+2C62","U+2C63","U+2C64","U+2C67","U+2C69","U+2C6B","U+2C6D","U+2C6E",
  "U+2C6F","U+2C70","U+2C72","U+2C75","U+2C7E","U+2C7F","Ⲁ","Ⲃ","Ⲅ","Ⲇ","Ⲉ",
  "Ⲋ","Ⲍ","Ⲏ","Ⲑ","Ⲓ","Ⲕ","Ⲗ","Ⲙ","Ⲛ","Ⲝ","Ⲟ","Ⲡ","Ⲣ","Ⲥ","Ⲧ","Ⲩ","Ⲫ","Ⲭ",
  "Ⲯ","Ⲱ","Ⲳ","Ⲵ","Ⲷ","Ⲹ","Ⲻ","Ⲽ","Ⲿ","Ⳁ","Ⳃ","Ⳅ","Ⳇ","Ⳉ","Ⳋ","Ⳍ","Ⳏ","Ⳑ",
  "Ⳓ","Ⳕ","Ⳗ","Ⳙ","Ⳛ","Ⳝ","Ⳟ","Ⳡ","Ⳣ","Ⳬ","Ⳮ","Ⳳ","U+A640","U+A642",
  "U+A644","U+A646","U+A648","U+A64A","U+A64C","U+A64E","U+A650","U+A652",
  "U+A654","U+A656","U+A658","U+A65A","U+A65C","U+A65E","U+A660","U+A662",
  "U+A664","U+A666","U+A668","U+A66A","U+A66C","Ꚁ","Ꚃ","Ꚅ","Ꚇ","Ꚉ","Ꚋ","Ꚍ",
  "Ꚏ","Ꚑ","Ꚓ","Ꚕ","Ꚗ","Ꚙ","Ꚛ","U+A722","U+A724","U+A726","U+A728","U+A72A",
  "U+A72C","U+A72E","U+A732","U+A734","U+A736","U+A738","U+A73A","U+A73C",
  "U+A73E","U+A740","U+A742","U+A744","U+A746","U+A748","U+A74A","U+A74C",
  "U+A74E","U+A750","U+A752","U+A754","U+A756","U+A758","U+A75A","U+A75C",
  "U+A75E","U+A760","U+A762","U+A764","U+A766","U+A768","U+A76A","U+A76C",
  "U+A76E","U+A779","U+A77B","U+A77D","U+A77E","Ꞁ","Ꞃ","Ꞅ","Ꞇ","Ꞌ","Ɥ","Ꞑ",
  "Ꞓ","Ꞗ","Ꞙ","Ꞛ","Ꞝ","Ꞟ","Ꞡ","Ꞣ","Ꞥ","Ꞧ","Ꞩ","Ɦ","Ɜ","Ɡ","Ɬ","Ɪ","Ʞ","Ʇ",
  "Ʝ","Ꭓ","Ꞵ","Ꞷ","Ꞹ","Ꞻ","Ꞽ","Ꞿ","Ꟁ","Ꟃ","Ꞔ","Ʂ","Ᶎ","Ꟈ","Ꟊ","Ɤ","Ꟍ","꟎",
  "Ꟑ","꟒","꟔","Ꟗ","Ꟙ","Ꟛ","Ƛ","Ꟶ","U+FF21","U+FF22","U+FF23","U+FF24",
  "U+FF25","U+FF26","U+FF27","U+FF28","U+FF29","U+FF2A","U+FF2B","U+FF2C",
  "U+FF2D","U+FF2E","U+FF2F","U+FF30","U+FF31","U+FF32","U+FF33","U+FF34",
  "U+FF35","U+FF36","U+FF37","U+FF38","U+FF39","U+FF3A">>

LowerCase ==
  <<"a","b","c","d","e","f","g","h","i","j","k","l","m","n","o","p","q","r",
  "s","t","u","v","w","x","y","z","à","á","â","ã","ä","å","æ","ç","è","é",
  "ê","ë","ì","í","î","ï","ð","ñ","ò","ó","ô","õ","ö","ø","ù","ú","û","ü",
  "ý","þ","U+0101","U+0103","U+0105","U+0107","U+0109","U+010B","U+010D",
  "U+010F","U+0111","U+0113","U+0115","U+0117","U+0119","U+011B","U+011D",
  "U+011F","U+0121","U+0123","U+0125","U+0127","U+0129","U+012B","U+012D",
  "U+012F","U+0133","U+0135","U+0137","U+013A","U+013C","U+013E","U+0140",
  "U+0142","U+0144","U+0146","U+0148","U+014B","U+014D","U+014F","U+0151",
  "U+0153","U+0155","U+0157","U+0159","U+015B","U+015D","U+015F","U+0161",
  "U+0163","U+0165","U+0167","U+0169","U+016B","U+016D","U+016F","U+0171",
  "U+0173","U+0175","U+0177","ÿ","U+017A","U+017C","U+017E","U+0253","ƃ",
  "ƅ","U+0254","ƈ","U+0256","U+0257","ƌ","ǝ","U+0259","U+025B","ƒ","U+0260",
  "U+0263","U+0269","U+0268","ƙ","U+026F","U+0272","U+0275","ơ","ƣ","ƥ","ʀ",
  "ƨ","ʃ","ƭ","ʈ","ư","ʊ","ʋ","ƴ","ƶ","ʒ","ƹ","ƽ","ǆ","ǆ","ǉ","ǉ","ǌ","ǌ",
  "ǎ","ǐ","ǒ","ǔ","ǖ","ǘ","ǚ","ǜ","ǟ","ǡ","ǣ","ǥ","ǧ","ǩ","ǫ","ǭ","ǯ","ǳ",
  "ǳ","ǵ","ƕ","ƿ","ǹ","ǻ","ǽ","ǿ","U+0201","U+0203","U+0205","U+0207",
  "U+0209","U+020B","U+020D","U+020F","U+0211","U+0213","U+0215","U+0217",
  "U+0219","U+021B","U+021D","U+021F","ƞ","U+0223","U+0225","U+0227",
  "U+0229","U+022B","U+022D","U+022F","U+0231","U+0233","U+2C65","U+023C",
  "ƚ","U+2C66","U+0242","ƀ","ʉ","ʌ","U+0247","U+0249","U+024B","U+024D",
  "U+024F","U+0371","U+0373","U+0377","ϳ","ά","έ","ή","ί","ό","ύ","ώ","α",
  "β","γ","δ","ε","ζ","η","θ","ι","κ","λ","μ","ν","ξ","ο","π","ρ","σ","τ",
  "υ","φ","χ","ψ","ω","ϊ","ϋ","ϗ","ϙ","ϛ","ϝ","ϟ","ϡ","ϣ","ϥ","ϧ","ϩ","ϫ",
  "ϭ","ϯ","θ","ϸ","ϲ","ϻ","U+037B","U+037C","U+037D","U+0450","U+0451",
  "U+0452","U+0453","U+0454","U+0455","U+0456","U+0457","U+0458","U+0459",
  "U+045A","U+045B","U+045C","U+045D","U+045E","U+045F","U+0430","U+0431",
  "U+0432","U+0433","U+0434","U+0435","U+0436","U+0437","U+0438","U+0439",
  "U+043A","U+043B","U+043C","U+043D","U+043E","U+043F","U+0440","U+0441",
  "U+0442","U+0443","U+0444","U+0445","U+0446","U+0447","U+0448","U+0449",
  "U+044A","U+044B","U+044C","U+044D","U+044E","U+044F","U+0461","U+0463",
  "U+0465","U+0467","U+0469","U+046B","U+046D","U+046F","U+0471","U+0473",
  "U+0475","U+0477","U+0479","U+047B","U+047D","U+047F","ҁ","ҋ","ҍ","ҏ","ґ",
  "ғ","ҕ","җ","ҙ","қ","ҝ","ҟ","ҡ","ң","ҥ","ҧ","ҩ","ҫ","ҭ","ү","ұ","ҳ","ҵ",
  "ҷ","ҹ","һ","ҽ","ҿ","ӏ","ӂ","ӄ","ӆ","ӈ","ӊ","ӌ","ӎ","ӑ","ӓ","ӕ","ӗ","ә",
  "ӛ","ӝ","ӟ","ӡ","ӣ","ӥ","ӧ","ө","ӫ","ӭ","ӯ","ӱ","ӳ","ӵ","ӷ","ӹ","ӻ","ӽ",
  "ӿ","U+0501","U+0503","U+0505","U+0507","U+0509","U+050B","U+050D",
  "U+050F","U+0511","U+0513","U+0515","U+0517","U+0519","U+051B","U+051D",
  "U+051F","U+0521","U+0523","U+0525","U+0527","U+0529","U+052B","U+052D",
  "U+052F","U+0561","U+0562","U+0563","U+0564","U+0565","U+0566","U+0567",
  "U+0568","U+0569","U+056A","U+056B","U+056C","U+056D","U+056E","U+056F",
  "U+0570","U+0571","U+0572","U+0573","U+0574","U+0575","U+0576","U+0577",
  "U+0578","U+0579","U+057A","U+057B","U+057C","U+057D","U+057E","U+057F",
  "ր","ց","ւ","փ","ք","օ","ֆ","U+2D00","U+2D01","U+2D02","U+2D03","U+2D04",
  "U+2D05","U+2D06","U+2D07","U+2D08","U+2D09","U+2D0A","U+2D0B","U+2D0C",
  "U+2D0D","U+2D0E","U+2D0F","U+2D10","U+2D11","U+2D12","U+2D13","U+2D14",
  "U+2D15","U+2D16","U+2D17","U+2D18","U+2D19","U+2D1A","U+2D1B","U+2D1C",
  "U+2D1D","U+2D1E","U+2D1F","U+2D20","U+2D21","U+2D22","U+2D23","U+2D24",
  "U+2D25","U+2D27","U+2D2D","U+AB70","U+AB71","U+AB72","U+AB73","U+AB74",
  "U+AB75","U+AB76","U+AB77","U+AB78","U+AB79","U+AB7A","U+AB7B","U+AB7C",
  "U+AB7D","U+AB7E","U+AB7F","ꮀ","ꮁ","ꮂ","ꮃ","ꮄ","ꮅ","ꮆ","ꮇ","ꮈ","ꮉ","ꮊ",
  "ꮋ","ꮌ","ꮍ","ꮎ","ꮏ","ꮐ","ꮑ","ꮒ","ꮓ","ꮔ","ꮕ","ꮖ","ꮗ","ꮘ","ꮙ","ꮚ","ꮛ","ꮜ",
  "ꮝ","ꮞ","ꮟ","ꮠ","ꮡ","ꮢ","ꮣ","ꮤ","ꮥ","ꮦ","ꮧ","ꮨ","ꮩ","ꮪ","ꮫ","ꮬ","ꮭ","ꮮ",
  "ꮯ","ꮰ","ꮱ","ꮲ","ꮳ","ꮴ","ꮵ","ꮶ","ꮷ","ꮸ","ꮹ","ꮺ","ꮻ","ꮼ","ꮽ","ꮾ","ꮿ","ᏸ",
  "ᏹ","ᏺ","ᏻ","ᏼ","ᏽ","ᲊ","ა","ბ","გ","დ","ე","ვ","ზ","თ","ი","კ","ლ","მ",
  "ნ","ო","პ","ჟ","რ","ს","ტ","უ","ფ","ქ","ღ","ყ","შ","ჩ","ც","ძ","წ","ჭ",
  "ხ","ჯ","ჰ","ჱ","ჲ","ჳ","ჴ","ჵ","ჶ","ჷ","ჸ","ჹ","ჺ","ჽ","ჾ","ჿ","U+1E01",
  "U+1E03","U+1E05","U+1E07","U+1E09","U+1E0B","U+1E0D","U+1E0F","U+1E11",
  "U+1E13","U+1E15","U+1E17","U+1E19","U+1E1B","U+1E1D","U+1E1F","U+1E21",
  "U+1E23","U+1E25","U+1E27","U+1E29","U+1E2B","U+1E2D","U+1E2F","U+1E31",
  "U+1E33","U+1E35","U+1E37","U+1E39","U+1E3B","U+1E3D","U+1E3F","U+1E41",
  "U+1E43","U+1E45","U+1E47","U+1E49","U+1E4B","U+1E4D","U+1E4F","U+1E51",
  "U+1E53","U+1E55","U+1E57","U+1E59","U+1E5B","U+1E5D","U+1E5F","U+1E61",
  "U+1E63","U+1E65","U+1E67","U+1E69","U+1E6B","U+1E6D","U+1E6F","U+1E71",
  "U+1E73","U+1E75","U+1E77","U+1E79","U+1E7B","U+1E7D","U+1E7F","ẁ","ẃ",
  "ẅ","ẇ","ẉ","ẋ","ẍ","ẏ","ẑ","ẓ","ẕ","ß","ạ","ả","ấ","ầ","ẩ","ẫ","ậ","ắ",
  "ằ","ẳ","ẵ","ặ","ẹ","ẻ","ẽ","ế","ề","ể","ễ","ệ","ỉ","ị","ọ","ỏ","ố","ồ",
  "ổ","ỗ","ộ","ớ","ờ","ở","ỡ","ợ","ụ","ủ","ứ","ừ","ử","ữ","ự","ỳ","ỵ","ỷ",
  "ỹ","ỻ","ỽ","ỿ","U+1F00","U+1F01","U+1F02","U+1F03","U+1F04","U+1F05",
  "U+1F06","U+1F07","U+1F10","U+1F11","U+1F12","U+1F13","U+1F14","U+1F15",
  "U+1F20","U+1F21","U+1F22","U+1F23","U+1F24","U+1F25","U+1F26","U+1F27",
  "U+1F30","U+1F31","U+1F32","U+1F33","U+1F34","U+1F35","U+1F36","U+1F37",
  "U+1F40","U+1F41","U+1F42","U+1F43","U+1F44","U+1F45","U+1F51","U+1F53",
  "U+1F55","U+1F57","U+1F60","U+1F61","U+1F62","U+1F63","U+1F64","U+1F65",
  "U+1F66","U+1F67","ᾀ","ᾁ","ᾂ","ᾃ","ᾄ","ᾅ","ᾆ","ᾇ","ᾐ","ᾑ","ᾒ","ᾓ","ᾔ","ᾕ",
  "ᾖ","ᾗ","ᾠ","ᾡ","ᾢ","ᾣ","ᾤ","ᾥ","ᾦ","ᾧ","ᾰ","ᾱ","U+1F70","U+1F71","ᾳ",
  "U+1F72","U+1F73","U+1F74","U+1F75","ῃ","ῐ","ῑ","U+1F76","U+1F77","ῠ","ῡ",
  "U+1F7A","U+1F7B","ῥ","U+1F78","U+1F79","U+1F7C","U+1F7D","ῳ","ω","k","å",
  "U+214E","U+2170","U+2171","U+2172","U+2173","U+2174","U+2175","U+2176",
  "U+2177","U+2178","U+2179","U+217A","U+217B","U+217C","U+217D","U+217E",
  "U+217F","ↄ","ⓐ","ⓑ","ⓒ","ⓓ","ⓔ","ⓕ","ⓖ","ⓗ","ⓘ","ⓙ","ⓚ","ⓛ","ⓜ","ⓝ","ⓞ",
  "ⓟ","ⓠ","ⓡ","ⓢ","ⓣ","ⓤ","ⓥ","ⓦ","ⓧ","ⓨ","ⓩ","U+2C30","U+2C31","U+2C32",
  "U+2C33","U+2C34","U+2C35","U+2C36","U+2C37","U+2C38","U+2C39","U+2C3A",
  "U+2C3B","U+2C3C","U+2C3D","U+2C3E","U+2C3F","U+2C40","U+2C41","U+2C42",
  "U+2C43","U+2C44","U+2C45","U+2C46","U+2C47","U+2C48","U+2C49","U+2C4A",
  "U+2C4B","U+2C4C","U+2C4D","U+2C4E","U+2C4F","U+2C50","U+2C51","U+2C52",
  "U+2C53","U+2C54","U+2C55","U+2C56","U+2C57","U+2C58","U+2C59","U+2C5A",
  "U+2C5B","U+2C5C","U+2C5D","U+2C5E","U+2C5F","U+2C61","U+026B","U+1D7D",
  "U+027D","U+2C68","U+2C6A","U+2C6C","U+0251","U+0271","U+0250","U+0252",
  "U+2C73","U+2C76","U+023F","U+0240","ⲁ","ⲃ","ⲅ","ⲇ","ⲉ","ⲋ","ⲍ","ⲏ","ⲑ",
  "ⲓ","ⲕ","ⲗ","ⲙ","ⲛ","ⲝ","ⲟ","ⲡ","ⲣ","ⲥ","ⲧ","ⲩ","ⲫ","ⲭ","ⲯ","ⲱ","ⲳ","ⲵ",
  "ⲷ","ⲹ","ⲻ","ⲽ","ⲿ","ⳁ","ⳃ","ⳅ","ⳇ","ⳉ","ⳋ","ⳍ","ⳏ","ⳑ","ⳓ","ⳕ","ⳗ","ⳙ",
  "ⳛ","ⳝ","ⳟ","ⳡ","ⳣ","ⳬ","ⳮ","ⳳ","U+A641","U+A643","U+A645","U+A647",
  "U+A649","U+A64B","U+A64D","U+A64F","U+A651","U+A653","U+A655","U+A657",
  "U+A659","U+A65B","U+A65D","U+A65F","U+A661","U+A663","U+A665","U+A667",
  "U+A669","U+A66B","U+A66D","ꚁ","ꚃ","ꚅ","ꚇ","ꚉ","ꚋ","ꚍ","ꚏ","ꚑ","ꚓ","ꚕ",
  "ꚗ","ꚙ","ꚛ","U+A723","U+A725","U+A727","U+A729","U+A72B","U+A72D",
  "U+A72F","U+A733","U+A735","U+A737","U+A739","U+A73B","U+A73D","U+A73F",
  "U+A741","U+A743","U+A745","U+A747","U+A749","U+A74B","U+A74D","U+A74F",
  "U+A751","U+A753","U+A755","U+A757","U+A759","U+A75B","U+A75D","U+A75F",
  "U+A761","U+A763","U+A765","U+A767","U+A769","U+A76B","U+A76D","U+A76F",
  "U+A77A","U+A77C","U+1D79","U+A77F","ꞁ","ꞃ","ꞅ","ꞇ","ꞌ","U+0265","ꞑ","ꞓ",
  "ꞗ","ꞙ","ꞛ","ꞝ","ꞟ","ꞡ","ꞣ","ꞥ","ꞧ","ꞩ","U+0266","U+025C","U+0261",
  "U+026C","U+026A","ʞ","ʇ","ʝ","U+AB53","ꞵ","ꞷ","ꞹ","ꞻ","ꞽ","ꞿ","ꟁ","ꟃ",
  "ꞔ","ʂ","ᶎ","ꟈ","ꟊ","U+0264","ꟍ","꟏","ꟑ","ꟓ","ꟕ","ꟗ","ꟙ","ꟛ","ƛ","ꟶ",
  "U+FF41","U+FF42","U+FF43","U+FF44","U+FF45","U+FF46","U+FF47","U+FF48",
  "U+FF49","U+FF4A","U+FF4B","U+FF4C","U+FF4D","U+FF4E","U+FF4F","U+FF50",
  "U+FF51","U+FF52","U+FF53","U+FF54","U+FF55","U+FF56","U+FF57","U+FF58",
  "U+FF59","U+FF5A">>

\* The same for the letters outside the Basic Multilingual Plane, as
\* surrogate pairs
UpperPairs ==
  <<<<"U+D801","U+DC00">>,<<"U+D801","U+DC01">>,<<"U+D801","U+DC02">>,
  <<"U+D801","U+DC03">>,<<"U+D801","U+DC04">>,<<"U+D801","U+DC05">>,
  <<"U+D801","U+DC06">>,<<"U+D801","U+DC07">>,<<"U+D801","U+DC08">>,
  <<"U+D801","U+DC09">>,<<"U+D801","U+DC0A">>,<<"U+D801","U+DC0B">>,
  <<"U+D801","U+DC0C">>,<<"U+D801","U+DC0D">>,<<"U+D801","U+DC0E">>,
  <<"U+D801","U+DC0F">>,<<"U+D801","U+DC10">>,<<"U+D801","U+DC11">>,
  <<"U+D801","U+DC12">>,<<"U+D801","U+DC13">>,<<"U+D801","U+DC14">>,
  <<"U+D801","U+DC15">>,<<"U+D801","U+DC16">>,<<"U+D801","U+DC17">>,
  <<"U+D801","U+DC18">>,<<"U+D801","U+DC19">>,<<"U+D801","U+DC1A">>,
  <<"U+D801","U+DC1B">>,<<"U+D801","U+DC1C">>,<<"U+D801","U+DC1D">>,
  <<"U+D801","U+DC1E">>,<<"U+D801","U+DC1F">>,<<"U+D801","U+DC20">>,
  <<"U+D801","U+DC21">>,<<"U+D801","U+DC22">>,<<"U+D801","U+DC23">>,
  <<"U+D801","U+DC24">>,<<"U+D801","U+DC25">>,<<"U+D801","U+DC26">>,
  <<"U+D801","U+DC27">>,<<"U+D801","U+DCB0">>,<<"U+D801","U+DCB1">>,
  <<"U+D801","U+DCB2">>,<<"U+D801","U+DCB3">>,<<"U+D801","U+DCB4">>,
  <<"U+D801","U+DCB5">>,<<"U+D801","U+DCB6">>,<<"U+D801","U+DCB7">>,
  <<"U+D801","U+DCB8">>,<<"U+D801","U+DCB9">>,<<"U+D801","U+DCBA">>,
  <<"U+D801","U+DCBB">>,<<"U+D801","U+DCBC">>,<<"U+D801","U+DCBD">>,
  <<"U+D801","U+DCBE">>,<<"U+D801","U+DCBF">>,<<"U+D801","U+DCC0">>,
  <<"U+D801","U+DCC1">>,<<"U+D801","U+DCC2">>,<<"U+D801","U+DCC3">>,
  <<"U+D801","U+DCC4">>,<<"U+D801","U+DCC5">>,<<"U+D801","U+DCC6">>,
  <<"U+D801","U+DCC7">>,<<"U+D801","U+DCC8">>,<<"U+D801","U+DCC9">>,
  <<"U+D801","U+DCCA">>,<<"U+D801","U+DCCB">>,<<"U+D801","U+DCCC">>,
  <<"U+D801","U+DCCD">>,<<"U+D801","U+DCCE">>,<<"U+D801","U+DCCF">>,
  <<"U+D801","U+DCD0">>,<<"U+D801","U+DCD1">>,<<"U+D801","U+DCD2">>,
  <<"U+D801","U+DCD3">>,<<"U+D801","U+DD70">>,<<"U+D801","U+DD71">>,
  <<"U+D801","U+DD72">>,<<"U+D801","U+DD73">>,<<"U+D801","U+DD74">>,
  <<"U+D801","U+DD75">>,<<"U+D801","U+DD76">>,<<"U+D801","U+DD77">>,
  <<"U+D801","U+DD78">>,<<"U+D801","U+DD79">>,<<"U+D801","U+DD7A">>,
  <<"U+D801","U+DD7C">>,<<"U+D801","U+DD7D">>,<<"U+D801","U+DD7E">>,
  <<"U+D801","U+DD7F">>,<<"U+D801","U+DD80">>,<<"U+D801","U+DD81">>,
  <<"U+D801","U+DD82">>,<<"U+D801","U+DD83">>,<<"U+D801","U+DD84">>,
  <<"U+D801","U+DD85">>,<<"U+D801","U+DD86">>,<<"U+D801","U+DD87">>,
  <<"U+D801","U+DD88">>,<<"U+D801","U+DD89">>,<<"U+D801","U+DD8A">>,
  <<"U+D801","U+DD8C">>,<<"U+D801","U+DD8D">>,<<"U+D801","U+DD8E">>,
  <<"U+D801","U+DD8F">>,<<"U+D801","U+DD90">>,<<"U+D801","U+DD91">>,
  <<"U+D801","U+DD92">>,<<"U+D801","U+DD94">>,<<"U+D801","U+DD95">>,
  <<"U+D803","U+DC80">>,<<"U+D803","U+DC81">>,<<"U+D803","U+DC82">>,
  <<"U+D803","U+DC83">>,<<"U+D803","U+DC84">>,<<"U+D803","U+DC85">>,
  <<"U+D803","U+DC86">>,<<"U+D803","U+DC87">>,<<"U+D803","U+DC88">>,
  <<"U+D803","U+DC89">>,<<"U+D803","U+DC8A">>,<<"U+D803","U+DC8B">>,
  <<"U+D803","U+DC8C">>,<<"U+D803","U+DC8D">>,<<"U+D803","U+DC8E">>,
  <<"U+D803","U+DC8F">>,<<"U+D803","U+DC90">>,<<"U+D803","U+DC91">>,
  <<"U+D803","U+DC92">>,<<"U+D803","U+DC93">>,<<"U+D803","U+DC94">>,
  <<"U+D803","U+DC95">>,<<"U+D803","U+DC96">>,<<"U+D803","U+DC97">>,
  <<"U+D803","U+DC98">>,<<"U+D803","U+DC99">>,<<"U+D803","U+DC9A">>,
  <<"U+D803","U+DC9B">>,<<"U+D803","U+DC9C">>,<<"U+D803","U+DC9D">>,
  <<"U+D803","U+DC9E">>,<<"U+D803","U+DC9F">>,<<"U+D803","U+DCA0">>,
  <<"U+D803","U+DCA1">>,<<"U+D803","U+DCA2">>,<<"U+D803","U+DCA3">>,
  <<"U+D803","U+DCA4">>,<<"U+D803","U+DCA5">>,<<"U+D803","U+DCA6">>,
  <<"U+D803","U+DCA7">>,<<"U+D803","U+DCA8">>,<<"U+D803","U+DCA9">>,
  <<"U+D803","U+DCAA">>,<<"U+D803","U+DCAB">>,<<"U+D803","U+DCAC">>,
  <<"U+D803","U+DCAD">>,<<"U+D803","U+DCAE">>,<<"U+D803","U+DCAF">>,
  <<"U+D803","U+DCB0">>,<<"U+D803","U+DCB1">>,<<"U+D803","U+DCB2">>,
  <<"U+D803","U+DD50">>,<<"U+D803","U+DD51">>,<<"U+D803","U+DD52">>,
  <<"U+D803","U+DD53">>,<<"U+D803","U+DD54">>,<<"U+D803","U+DD55">>,
  <<"U+D803","U+DD56">>,<<"U+D803","U+DD57">>,<<"U+D803","U+DD58">>,
  <<"U+D803","U+DD59">>,<<"U+D803","U+DD5A">>,<<"U+D803","U+DD5B">>,
  <<"U+D803","U+DD5C">>,<<"U+D803","U+DD5D">>,<<"U+D803","U+DD5E">>,
  <<"U+D803","U+DD5F">>,<<"U+D803","U+DD60">>,<<"U+D803","U+DD61">>,
  <<"U+D803","U+DD62">>,<<"U+D803","U+DD63">>,<<"U+D803","U+DD64">>,
  <<"U+D803","U+DD65">>,<<"U+D806","U+DCA0">>,<<"U+D806","U+DCA1">>,
  <<"U+D806","U+DCA2">>,<<"U+D806","U+DCA3">>,<<"U+D806","U+DCA4">>,
  <<"U+D806","U+DCA5">>,<<"U+D806","U+DCA6">>,<<"U+D806","U+DCA7">>,
  <<"U+D806","U+DCA8">>,<<"U+D806","U+DCA9">>,<<"U+D806","U+DCAA">>,
  <<"U+D806","U+DCAB">>,<<"U+D806","U+DCAC">>,<<"U+D806","U+DCAD">>,
  <<"U+D806","U+DCAE">>,<<"U+D806","U+DCAF">>,<<"U+D806","U+DCB0">>,
  <<"U+D806","U+DCB1">>,<<"U+D806","U+DCB2">>,<<"U+D806","U+DCB3">>,
  <<"U+D806","U+DCB4">>,<<"U+D806","U+DCB5">>,<<"U+D806","U+DCB6">>,
  <<"U+D806","U+DCB7">>,<<"U+D806","U+DCB8">>,<<"U+D806","U+DCB9">>,
  <<"U+D806","U+DCBA">>,<<"U+D806","U+DCBB">>,<<"U+D806","U+DCBC">>,
  <<"U+D806","U+DCBD">>,<<"U+D806","U+DCBE">>,<<"U+D806","U+DCBF">>,
  <<"U+D81B","U+DE40">>,<<"U+D81B","U+DE41">>,<<"U+D81B","U+DE42">>,
  <<"U+D81B","U+DE43">>,<<"U+D81B","U+DE44">>,<<"U+D81B","U+DE45">>,
  <<"U+D81B","U+DE46">>,<<"U+D81B","U+DE47">>,<<"U+D81B","U+DE48">>,
  <<"U+D81B","U+DE49">>,<<"U+D81B","U+DE4A">>,<<"U+D81B","U+DE4B">>,
  <<"U+D81B","U+DE4C">>,<<"U+D81B","U+DE4D">>,<<"U+D81B","U+DE4E">>,
  <<"U+D81B","U+DE4F">>,<<"U+D81B","U+DE50">>,<<"U+D81B","U+DE51">>,
  <<"U+D81B","U+DE52">>,<<"U+D81B","U+DE53">>,<<"U+D81B","U+DE54">>,
  <<"U+D81B","U+DE55">>,<<"U+D81B","U+DE56">>,<<"U+D81B","U+DE57">>,
  <<"U+D81B","U+DE58">>,<<"U+D81B","U+DE59">>,<<"U+D81B","U+DE5A">>,
  <<"U+D81B","U+DE5B">>,<<"U+D81B","U+DE5C">>,<<"U+D81B","U+DE5D">>,
  <<"U+D81B","U+DE5E">>,<<"U+D81B","U+DE5F">>,<<"U+D81B","U+DEA0">>,
  <<"U+D81B","U+DEA1">>,<<"U+D81B","U+DEA2">>,<<"U+D81B","U+DEA3">>,
  <<"U+D81B","U+DEA4">>,<<"U+D81B","U+DEA5">>,<<"U+D81B","U+DEA6">>,
  <<"U+D81B","U+DEA7">>,<<"U+D81B","U+DEA8">>,<<"U+D81B","U+DEA9">>,
  <<"U+D81B","U+DEAA">>,<<"U+D81B","U+DEAB">>,<<"U+D81B","U+DEAC">>,
  <<"U+D81B","U+DEAD">>,<<"U+D81B","U+DEAE">>,<<"U+D81B","U+DEAF">>,
  <<"U+D81B","U+DEB0">>,<<"U+D81B","U+DEB1">>,<<"U+D81B","U+DEB2">>,
  <<"U+D81B","U+DEB3">>,<<"U+D81B","U+DEB4">>,<<"U+D81B","U+DEB5">>,
  <<"U+D81B","U+DEB6">>,<<"U+D81B","U+DEB7">>,<<"U+D81B","U+DEB8">>,
  <<"U+D83A","U+DD00">>,<<"U+D83A","U+DD01">>,<<"U+D83A","U+DD02">>,
  <<"U+D83A","U+DD03">>,<<"U+D83A","U+DD04">>,<<"U+D83A","U+DD05">>,
  <<"U+D83A","U+DD06">>,<<"U+D83A","U+DD07">>,<<"U+D83A","U+DD08">>,
  <<"U+D83A","U+DD09">>,<<"U+D83A","U+DD0A">>,<<"U+D83A","U+DD0B">>,
  <<"U+D83A","U+DD0C">>,<<"U+D83A","U+DD0D">>,<<"U+D83A","U+DD0E">>,
  <<"U+D83A","U+DD0F">>,<<"U+D83A","U+DD10">>,<<"U+D83A","U+DD11">>,
  <<"U+D83A","U+DD12">>,<<"U+D83A","U+DD13">>,<<"U+D83A","U+DD14">>,
  <<"U+D83A","U+DD15">>,<<"U+D83A","U+DD16">>,<<"U+D83A","U+DD17">>,
  <<"U+D83A","U+DD18">>,<<"U+D83A","U+DD19">>,<<"U+D83A","U+DD1A">>,
  <<"U+D83A","U+DD1B">>,<<"U+D83A","U+DD1C">>,<<"U+D83A","U+DD1D">>,
  <<"U+D83A","U+DD1E">>,<<"U+D83A","U+DD1F">>,<<"U+D83A","U+DD20">>,
  <<"U+D83A","U+DD21">>>>

LowerPairs ==
  <<<<"U+D801","U+DC28">>,<<"U+D801","U+DC29">>,<<"U+D801","U+DC2A">>,
  <<"U+D801","U+DC2B">>,<<"U+D801","U+DC2C">>,<<"U+D801","U+DC2D">>,
  <<"U+D801","U+DC2E">>,<<"U+D801","U+DC2F">>,<<"U+D801","U+DC30">>,
  <<"U+D801","U+DC31">>,<<"U+D801","U+DC32">>,<<"U+D801","U+DC33">>,
  <<"U+D801","U+DC34">>,<<"U+D801","U+DC35">>,<<"U+D801","U+DC36">>,
  <<"U+D801","U+DC37">>,<<"U+D801","U+DC38">>,<<"U+D801","U+DC39">>,
  <<"U+D801","U+DC3A">>,<<"U+D801","U+DC3B">>,<<"U+D801","U+DC3C">>,
  <<"U+D801","U+DC3D">>,<<"U+D801","U+DC3E">>,<<"U+D801","U+DC3F">>,
  <<"U+D801","U+DC40">>,<<"U+D801","U+DC41">>,<<"U+D801","U+DC42">>,
  <<"U+D801","U+DC43">>,<<"U+D801","U+DC44">>,<<"U+D801","U+DC45">>,
  <<"U+D801","U+DC46">>,<<"U+D801","U+DC47">>,<<"U+D801","U+DC48">>,
  <<"U+D801","U+DC49">>,<<"U+D801","U+DC4A">>,<<"U+D801","U+DC4B">>,
  <<"U+D801","U+DC4C">>,<<"U+D801","U+DC4D">>,<<"U+D801","U+DC4E">>,
  <<"U+D801","U+DC4F">>,<<"U+D801","U+DCD8">>,<<"U+D801","U+DCD9">>,
  <<"U+D801","U+DCDA">>,<<"U+D801","U+DCDB">>,<<"U+D801","U+DCDC">>,
  <<"U+D801","U+DCDD">>,<<"U+D801","U+DCDE">>,<<"U+D801","U+DCDF">>,
  <<"U+D801","U+DCE0">>,<<"U+D801","U+DCE1">>,<<"U+D801","U+DCE2">>,
  <<"U+D801","U+DCE3">>,<<"U+D801","U+DCE4">>,<<"U+D801","U+DCE5">>,
  <<"U+D801","U+DCE6">>,<<"U+D801","U+DCE7">>,<<"U+D801","U+DCE8">>,
  <<"U+D801","U+DCE9">>,<<"U+D801","U+DCEA">>,<<"U+D801","U+DCEB">>,
  <<"U+D801","U+DCEC">>,<<"U+D801","U+DCED">>,<<"U+D801","U+DCEE">>,
  <<"U+D801","U+DCEF">>,<<"U+D801","U+DCF0">>,<<"U+D801","U+DCF1">>,
  <<"U+D801","U+DCF2">>,<<"U+D801","U+DCF3">>,<<"U+D801","U+DCF4">>,
  <<"U+D801","U+DCF5">>,<<"U+D801","U+DCF6">>,<<"U+D801","U+DCF7">>,
  <<"U+D801","U+DCF8">>,<<"U+D801","U+DCF9">>,<<"U+D801","U+DCFA">>,
  <<"U+D801","U+DCFB">>,<<"U+D801","U+DD97">>,<<"U+D801","U+DD98">>,
  <<"U+D801","U+DD99">>,<<"U+D801","U+DD9A">>,<<"U+D801","U+DD9B">>,
  <<"U+D801","U+DD9C">>,<<"U+D801","U+DD9D">>,<<"U+D801","U+DD9E">>,
  <<"U+D801","U+DD9F">>,<<"U+D801","U+DDA0">>,<<"U+D801","U+DDA1">>,
  <<"U+D801","U+DDA3">>,<<"U+D801","U+DDA4">>,<<"U+D801","U+DDA5">>,
  <<"U+D801","U+DDA6">>,<<"U+D801","U+DDA7">>,<<"U+D801","U+DDA8">>,
  <<"U+D801","U+DDA9">>,<<"U+D801","U+DDAA">>,<<"U+D801","U+DDAB">>,
  <<"U+D801","U+DDAC">>,<<"U+D801","U+DDAD">>,<<"U+D801","U+DDAE">>,
  <<"U+D801","U+DDAF">>,<<"U+D801","U+DDB0">>,<<"U+D801","U+DDB1">>,
  <<"U+D801","U+DDB3">>,<<"U+D801","U+DDB4">>,<<"U+D801","U+DDB5">>,
  <<"U+D801","U+DDB6">>,<<"U+D801","U+DDB7">>,<<"U+D801","U+DDB8">>,
  <<"U+D801","U+DDB9">>,<<"U+D801","U+DDBB">>,<<"U+D801","U+DDBC">>,
  <<"U+D803","U+DCC0">>,<<"U+D803","U+DCC1">>,<<"U+D803","U+DCC2">>,
  <<"U+D803","U+DCC3">>,<<"U+D803","U+DCC4">>,<<"U+D803","U+DCC5">>,
  <<"U+D803","U+DCC6">>,<<"U+D803","U+DCC7">>,<<"U+D803","U+DCC8">>,
  <<"U+D803","U+DCC9">>,<<"U+D803","U+DCCA">>,<<"U+D803","U+DCCB">>,
  <<"U+D803","U+DCCC">>,<<"U+D803","U+DCCD">>,<<"U+D803","U+DCCE">>,
  <<"U+D803","U+DCCF">>,<<"U+D803","U+DCD0">>,<<"U+D803","U+DCD1">>,
  <<"U+D803","U+DCD2">>,<<"U+D803","U+DCD3">>,<<"U+D803","U+DCD4">>,
  <<"U+D803","U+DCD5">>,<<"U+D803","U+DCD6">>,<<"U+D803","U+DCD7">>,
  <<"U+D803","U+DCD8">>,<<"U+D803","U+DCD9">>,<<"U+D803","U+DCDA">>,
  <<"U+D803","U+DCDB">>,<<"U+D803","U+DCDC">>,<<"U+D803","U+DCDD">>,
  <<"U+D803","U+DCDE">>,<<"U+D803","U+DCDF">>,<<"U+D803","U+DCE0">>,
  <<"U+D803","U+DCE1">>,<<"U+D803","U+DCE2">>,<<"U+D803","U+DCE3">>,
  <<"U+D803","U+DCE4">>,<<"U+D803","U+DCE5">>,<<"U+D803","U+DCE6">>,
  <<"U+D803","U+DCE7">>,<<"U+D803","U+DCE8">>,<<"U+D803","U+DCE9">>,
  <<"U+D803","U+DCEA">>,<<"U+D803","U+DCEB">>,<<"U+D803","U+DCEC">>,
  <<"U+D803","U+DCED">>,<<"U+D803","U+DCEE">>,<<"U+D803","U+DCEF">>,
  <<"U+D803","U+DCF0">>,<<"U+D803","U+DCF1">>,<<"U+D803","U+DCF2">>,
  <<"U+D803","U+DD70">>,<<"U+D803","U+DD71">>,<<"U+D803","U+DD72">>,
  <<"U+D803","U+DD73">>,<<"U+D803","U+DD74">>,<<"U+D803","U+DD75">>,
  <<"U+D803","U+DD76">>,<<"U+D803","U+DD77">>,<<"U+D803","U+DD78">>,
  <<"U+D803","U+DD79">>,<<"U+D803","U+DD7A">>,<<"U+D803","U+DD7B">>,
  <<"U+D803","U+DD7C">>,<<"U+D803","U+DD7D">>,<<"U+D803","U+DD7E">>,
  <<"U+D803","U+DD7F">>,<<"U+D803","U+DD80">>,<<"U+D803","U+DD81">>,
  <<"U+D803","U+DD82">>,<<"U+D803","U+DD83">>,<<"U+D803","U+DD84">>,
  <<"U+D803","U+DD85">>,<<"U+D806","U+DCC0">>,<<"U+D806","U+DCC1">>,
  <<"U+D806","U+DCC2">>,<<"U+D806","U+DCC3">>,<<"U+D806","U+DCC4">>,
  <<"U+D806","U+DCC5">>,<<"U+D806","U+DCC6">>,<<"U+D806","U+DCC7">>,
  <<"U+D806","U+DCC8">>,<<"U+D806","U+DCC9">>,<<"U+D806","U+DCCA">>,
  <<"U+D806","U+DCCB">>,<<"U+D806","U+DCCC">>,<<"U+D806","U+DCCD">>,
  <<"U+D806","U+DCCE">>,<<"U+D806","U+DCCF">>,<<"U+D806","U+DCD0">>,
  <<"U+D806","U+DCD1">>,<<"U+D806","U+DCD2">>,<<"U+D806","U+DCD3">>,
  <<"U+D806","U+DCD4">>,<<"U+D806","U+DCD5">>,<<"U+D806","U+DCD6">>,
  <<"U+D806","U+DCD7">>,<<"U+D806","U+DCD8">>,<<"U+D806","U+DCD9">>,
  <<"U+D806","U+DCDA">>,<<"U+D806","U+DCDB">>,<<"U+D806","U+DCDC">>,
  <<"U+D806","U+DCDD">>,<<"U+D806","U+DCDE">>,<<"U+D806","U+DCDF">>,
  <<"U+D81B","U+DE60">>,<<"U+D81B","U+DE61">>,<<"U+D81B","U+DE62">>,
  <<"U+D81B","U+DE63">>,<<"U+D81B","U+DE64">>,<<"U+D81B","U+DE65">>,
  <<"U+D81B","U+DE66">>,<<"U+D81B","U+DE67">>,<<"U+D81B","U+DE68">>,
  <<"U+D81B","U+DE69">>,<<"U+D81B","U+DE6A">>,<<"U+D81B","U+DE6B">>,
  <<"U+D81B","U+DE6C">>,<<"U+D81B","U+DE6D">>,<<"U+D81B","U+DE6E">>,
  <<"U+D81B","U+DE6F">>,<<"U+D81B","U+DE70">>,<<"U+D81B","U+DE71">>,
  <<"U+D81B","U+DE72">>,<<"U+D81B","U+DE73">>,<<"U+D81B","U+DE74">>,
  <<"U+D81B","U+DE75">>,<<"U+D81B","U+DE76">>,<<"U+D81B","U+DE77">>,
  <<"U+D81B","U+DE78">>,<<"U+D81B","U+DE79">>,<<"U+D81B","U+DE7A">>,
  <<"U+D81B","U+DE7B">>,<<"U+D81B","U+DE7C">>,<<"U+D81B","U+DE7D">>,
  <<"U+D81B","U+DE7E">>,<<"U+D81B","U+DE7F">>,<<"U+D81B","U+DEBB">>,
  <<"U+D81B","U+DEBC">>,<<"U+D81B","U+DEBD">>,<<"U+D81B","U+DEBE">>,
  <<"U+D81B","U+DEBF">>,<<"U+D81B","U+DEC0">>,<<"U+D81B","U+DEC1">>,
  <<"U+D81B","U+DEC2">>,<<"U+D81B","U+DEC3">>,<<"U+D81B","U+DEC4">>,
  <<"U+D81B","U+DEC5">>,<<"U+D81B","U+DEC6">>,<<"U+D81B","U+DEC7">>,
  <<"U+D81B","U+DEC8">>,<<"U+D81B","U+DEC9">>,<<"U+D81B","U+DECA">>,
  <<"U+D81B","U+DECB">>,<<"U+D81B","U+DECC">>,<<"U+D81B","U+DECD">>,
  <<"U+D81B","U+DECE">>,<<"U+D81B","U+DECF">>,<<"U+D81B","U+DED0">>,
  <<"U+D81B","U+DED1">>,<<"U+D81B","U+DED2">>,<<"U+D81B","U+DED3">>,
  <<"U+D83A","U+DD22">>,<<"U+D83A","U+DD23">>,<<"U+D83A","U+DD24">>,
  <<"U+D83A","U+DD25">>,<<"U+D83A","U+DD26">>,<<"U+D83A","U+DD27">>,
  <<"U+D83A","U+DD28">>,<<"U+D83A","U+DD29">>,<<"U+D83A","U+DD2A">>,
  <<"U+D83A","U+DD2B">>,<<"U+D83A","U+DD2C">>,<<"U+D83A","U+DD2D">>,
  <<"U+D83A","U+DD2E">>,<<"U+D83A","U+DD2F">>,<<"U+D83A","U+DD30">>,
  <<"U+D83A","U+DD31">>,<<"U+D83A","U+DD32">>,<<"U+D83A","U+DD33">>,
  <<"U+D83A","U+DD34">>,<<"U+D83A","U+DD35">>,<<"U+D83A","U+DD36">>,
  <<"U+D83A","U+DD37">>,<<"U+D83A","U+DD38">>,<<"U+D83A","U+DD39">>,
  <<"U+D83A","U+DD3A">>,<<"U+D83A","U+DD3B">>,<<"U+D83A","U+DD3C">>,
  <<"U+D83A","U+DD3D">>,<<"U+D83A","U+DD3E">>,<<"U+D83A","U+DD3F">>,
  <<"U+D83A","U+DD40">>,<<"U+D83A","U+DD41">>,<<"U+D83A","U+DD42">>,
  <<"U+D83A","U+DD43">>>>

\* The code points toLowerCase looks at around a capital sigma: the cased
\* letters that are not case-ignorable, and the case-ignorable ones
CasedUnits ==
  {"A","B","C","D","E","F","G","H","I","J","K","L","M","N","O","P","Q","R",
  "S","T","U","V","W","X","Y","Z","a","b","c","d","e","f","g","h","i","j",
  "k","l","m","n","o","p","q","r","s","t","u","v","w","x","y","z","ª","µ",
  "º","À","Á","Â","Ã","Ä","Å","Æ","Ç","È","É","Ê","Ë","Ì","Í","Î","Ï","Ð",
  "Ñ","Ò","Ó","Ô","Õ","Ö","Ø","Ù","Ú","Û","Ü","Ý","Þ","ß","à","á","â","ã",
  "ä","å","æ","ç","è","é","ê","ë","ì","í","î","ï","ð","ñ","ò","ó","ô","õ",
  "ö","ø","ù","ú","û","ü","ý","þ","ÿ","U+0100","U+0101","U+0102","U+0103",
  "U+0104","U+0105","U+0106","U+0107","U+0108","U+0109","U+010A","U+010B",
  "U+010C","U+010D","U+010E","U+010F","U+0110","U+0111","U+0112","U+0113",
  "U+0114","U+0115","U+0116","U+0117","U+0118","U+0119","U+011A","U+011B",
  "U+011C","U+011D","U+011E","U+011F","U+0120","U+0121","U+0122","U+0123",
  "U+0124","U+0125","U+0126","U+0127","U+0128","U+0129","U+012A","U+012B",
  "U+012C","U+012D","U+012E","U+012F","U+0130","U+0131","U+0132","U+0133",
  "U+0134","U+0135","U+0136","U+0137","U+0138","U+0139","U+013A","U+013B",
  "U+013C","U+013D","U+013E","U+013F","U+0140","U+0141","U+0142","U+0143",
  "U+0144","U+0145","U+0146","U+0147","U+0148","U+0149","U+014A","U+014B",
  "U+014C","U+014D","U+014E","U+014F","U+0150","U+0151","U+0152","U+0153",
  "U+0154","U+0155","U+0156","U+0157","U+0158","U+0159","U+015A","U+015B",
  "U+015C","U+015D","U+015E","U+015F","U+0160","U+0161","U+0162","U+0163",
  "U+0164","U+0165","U+0166","U+0167","U+0168","U+0169","U+016A","U+016B",
  "U+016C","U+016D","U+016E","U+016F","U+0170","U+0171","U+0172","U+0173",
  "U+0174","U+0175","U+0176","U+0177","U+0178","U+0179","U+017A","U+017B",
  "U+017C","U+017D","U+017E","U+017F","ƀ","Ɓ","Ƃ","ƃ","Ƅ","ƅ","Ɔ","Ƈ","ƈ",
  "Ɖ","Ɗ","Ƌ","ƌ","ƍ","Ǝ","Ə","Ɛ","Ƒ","ƒ","Ɠ","Ɣ","ƕ","Ɩ","Ɨ","Ƙ","ƙ","ƚ",
  "ƛ","Ɯ","Ɲ","ƞ","Ɵ","Ơ","ơ","Ƣ","ƣ","Ƥ","ƥ","Ʀ","Ƨ","ƨ","Ʃ","ƪ","ƫ","Ƭ",
  "ƭ","Ʈ","Ư","ư","Ʊ","Ʋ","Ƴ","ƴ","Ƶ","ƶ","Ʒ","Ƹ","ƹ","ƺ","Ƽ","ƽ","ƾ","ƿ",
  "Ǆ","ǅ","ǆ","Ǉ","ǈ","ǉ","Ǌ","ǋ","ǌ","Ǎ","ǎ","Ǐ","ǐ","Ǒ","ǒ","Ǔ","ǔ","Ǖ",
  "ǖ","Ǘ","ǘ","Ǚ","ǚ","Ǜ","ǜ","ǝ","Ǟ","ǟ","Ǡ","ǡ","Ǣ","ǣ","Ǥ","ǥ","Ǧ","ǧ",
  "Ǩ","ǩ","Ǫ","ǫ","Ǭ","ǭ","Ǯ","ǯ","ǰ","Ǳ","ǲ","ǳ","Ǵ","ǵ","Ƕ","Ƿ","Ǹ","ǹ",
  "Ǻ","ǻ","Ǽ","ǽ","Ǿ","ǿ","U+0200","U+0201","U+0202","U+0203","U+0204",
  "U+0205","U+0206","U+0207","U+0208","U+0209","U+020A","U+020B","U+020C",
  "U+020D","U+020E","U+020F","U+0210","U+0211","U+0212","U+0213","U+0214",
  "U+0215","U+0216","U+0217","U+0218","U+0219","U+021A","U+021B","U+021C",
  "U+021D","U+021E","U+021F","U+0220","U+0221","U+0222","U+0223","U+0224",
  "U+0225","U+0226","U+0227","U+0228","U+0229","U+022A","U+022B","U+022C",
  "U+022D","U+022E","U+022F","U+0230","U+0231","U+0232","U+0233","U+0234",
  "U+0235","U+0236","U+0237","U+0238","U+0239","U+023A","U+023B","U+023C",
  "U+023D","U+023E","U+023F","U+0240","U+0241","U+0242","U+0243","U+0244",
  "U+0245","U+0246","U+0247","U+0248","U+0249","U+024A","U+024B","U+024C",
  "U+024D","U+024E","U+024F","U+0250","U+0251","U+0252","U+0253","U+0254",
  "U+0255","U+0256","U+0257","U+0258","U+0259","U+025A","U+025B","U+025C",
  "U+025D","U+025E","U+025F","U+0260","U+0261","U+0262","U+0263","U+0264",
  "U+0265","U+0266","U+0267","U+0268","U+0269","U+026A","U+026B","U+026C",
  "U+026D","U+026E","U+026F","U+0270","U+0271","U+0272","U+0273","U+0274",
  "U+0275","U+0276","U+0277","U+0278","U+0279","U+027A","U+027B","U+027C",
  "U+027D","U+027E","U+027F","ʀ","ʁ","ʂ","ʃ","ʄ","ʅ","ʆ","ʇ","ʈ","ʉ","ʊ",
  "ʋ","ʌ","ʍ","ʎ","ʏ","ʐ","ʑ","ʒ","ʓ","ʖ","ʗ","ʘ","ʙ","ʚ","ʛ","ʜ","ʝ","ʞ",
  "ʟ","ʠ","ʡ","ʢ","ʣ","ʤ","ʥ","ʦ","ʧ","ʨ","ʩ","ʪ","ʫ","ʬ","ʭ","ʮ","ʯ",
  "U+0370","U+0371","U+0372","U+0373","U+0376","U+0377","U+037B","U+037C",
  "U+037D","U+037F","Ά","Έ","Ή","Ί","Ό","Ύ","Ώ","ΐ","Α","Β","Γ","Δ","Ε","Ζ",
  "Η","Θ","Ι","Κ","Λ","Μ","Ν","Ξ","Ο","Π","Ρ","Σ","Τ","Υ","Φ","Χ","Ψ","Ω",
  "Ϊ","Ϋ","ά","έ","ή","ί","ΰ","α","β","γ","δ","ε","ζ","η","θ","ι","κ","λ",
  "μ","ν","ξ","ο","π","ρ","ς","σ","τ","υ","φ","χ","ψ","ω","ϊ","ϋ","ό","ύ",
  "ώ","Ϗ","ϐ","ϑ","ϒ","ϓ","ϔ","ϕ","ϖ","ϗ","Ϙ","ϙ","Ϛ","ϛ","Ϝ","ϝ","Ϟ","ϟ",
  "Ϡ","ϡ","Ϣ","ϣ","Ϥ","ϥ","Ϧ","ϧ","Ϩ","ϩ","Ϫ","ϫ","Ϭ","ϭ","Ϯ","ϯ","ϰ","ϱ",
  "ϲ","ϳ","ϴ","ϵ","Ϸ","ϸ","Ϲ","Ϻ","ϻ","ϼ","Ͻ","Ͼ","Ͽ","U+0400","U+0401",
  "U+0402","U+0403","U+0404","U+0405","U+0406","U+0407","U+0408","U+0409",
  "U+040A","U+040B","U+040C","U+040D","U+040E","U+040F","U+0410","U+0411",
  "U+0412","U+0413","U+0414","U+0415","U+0416","U+0417","U+0418","U+0419",
  "U+041A","U+041B","U+041C","U+041D","U+041E","U+041F","U+0420","U+0421",
  "U+0422","U+0423","U+0424","U+0425","U+0426","U+0427","U+0428","U+0429",
  "U+042A","U+042B","U+042C","U+042D","U+042E","U+042F","U+0430","U+0431",
  "U+0432","U+0433","U+0434","U+0435","U+0436","U+0437","U+0438","U+0439",
  "U+043A","U+043B","U+043C","U+043D","U+043E","U+043F","U+0440","U+0441",
  "U+0442","U+0443","U+0444","U+0445","U+0446","U+0447","U+0448","U+0449",
  "U+044A","U+044B","U+044C","U+044D","U+044E","U+044F","U+0450","U+0451",
  "U+0452","U+0453","U+0454","U+0455","U+0456","U+0457","U+0458","U+0459",
  "U+045A","U+045B","U+045C","U+045D","U+045E","U+045F","U+0460","U+0461",
  "U+0462","U+0463","U+0464","U+0465","U+0466","U+0467","U+0468","U+0469",
  "U+046A","U+046B","U+046C","U+046D","U+046E","U+046F","U+0470","U+0471",
  "U+0472","U+0473","U+0474","U+0475","U+0476","U+0477","U+0478","U+0479",
  "U+047A","U+047B","U+047C","U+047D","U+047E","U+047F","Ҁ","ҁ","Ҋ","ҋ","Ҍ",
  "ҍ","Ҏ","ҏ","Ґ","ґ","Ғ","ғ","Ҕ","ҕ","Җ","җ","Ҙ","ҙ","Қ","қ","Ҝ","ҝ","Ҟ",
  "ҟ","Ҡ","ҡ","Ң","ң","Ҥ","ҥ","Ҧ","ҧ","Ҩ","ҩ","Ҫ","ҫ","Ҭ","ҭ","Ү","ү","Ұ",
  "ұ","Ҳ","ҳ","Ҵ","ҵ","Ҷ","ҷ","Ҹ","ҹ","Һ","һ","Ҽ","ҽ","Ҿ","ҿ","Ӏ","Ӂ","ӂ",
  "Ӄ","ӄ","Ӆ","ӆ","Ӈ","ӈ","Ӊ","ӊ","Ӌ","ӌ","Ӎ","ӎ","ӏ","Ӑ","ӑ","Ӓ","ӓ","Ӕ",
  "ӕ","Ӗ","ӗ","Ә","ә","Ӛ","ӛ","Ӝ","ӝ","Ӟ","ӟ","Ӡ","ӡ","Ӣ","ӣ","Ӥ","ӥ","Ӧ",
  "ӧ","Ө","ө","Ӫ","ӫ","Ӭ","ӭ","Ӯ","ӯ","Ӱ","ӱ","Ӳ","ӳ","Ӵ","ӵ","Ӷ","ӷ","Ӹ",
  "ӹ","Ӻ","ӻ","Ӽ","ӽ","Ӿ","ӿ","U+0500","U+0501","U+0502","U+0503","U+0504",
  "U+0505","U+0506","U+0507","U+0508","U+0509","U+050A","U+050B","U+050C",
  "U+050D","U+050E","U+050F","U+0510","U+0511","U+0512","U+0513","U+0514",
  "U+0515","U+0516","U+0517","U+0518","U+0519","U+051A","U+051B","U+051C",
  "U+051D","U+051E","U+051F","U+0520","U+0521","U+0522","U+0523","U+0524",
  "U+0525","U+0526","U+0527","U+0528","U+0529","U+052A","U+052B","U+052C",
  "U+052D","U+052E","U+052F","U+0531","U+0532","U+0533","U+0534","U+0535",
  "U+0536","U+0537","U+0538","U+0539","U+053A","U+053B","U+053C","U+053D",
  "U+053E","U+053F","U+0540","U+0541","U+0542","U+0543","U+0544","U+0545",
  "U+0546","U+0547","U+0548","U+0549","U+054A","U+054B","U+054C","U+054D",
  "U+054E","U+054F","U+0550","U+0551","U+0552","U+0553","U+0554","U+0555",
  "U+0556","U+0560","U+0561","U+0562","U+0563","U+0564","U+0565","U+0566",
  "U+0567","U+0568","U+0569","U+056A","U+056B","U+056C","U+056D","U+056E",
  "U+056F","U+0570","U+0571","U+0572","U+0573","U+0574","U+0575","U+0576",
  "U+0577","U+0578","U+0579","U+057A","U+057B","U+057C","U+057D","U+057E",
  "U+057F","ր","ց","ւ","փ","ք","օ","ֆ","և","ֈ","Ⴀ","Ⴁ","Ⴂ","Ⴃ","Ⴄ","Ⴅ","Ⴆ",
  "Ⴇ","Ⴈ","Ⴉ","Ⴊ","Ⴋ","Ⴌ","Ⴍ","Ⴎ","Ⴏ","Ⴐ","Ⴑ","Ⴒ","Ⴓ","Ⴔ","Ⴕ","Ⴖ","Ⴗ","Ⴘ",
  "Ⴙ","Ⴚ","Ⴛ","Ⴜ","Ⴝ","Ⴞ","Ⴟ","Ⴠ","Ⴡ","Ⴢ","Ⴣ","Ⴤ","Ⴥ","Ⴧ","Ⴭ","ა","ბ","გ",
  "დ","ე","ვ","ზ","თ","ი","კ","ლ","მ","ნ","ო","პ","ჟ","რ","ს","ტ","უ","ფ",
  "ქ","ღ","ყ","შ","ჩ","ც","ძ","წ","ჭ","ხ","ჯ","ჰ","ჱ","ჲ","ჳ","ჴ","ჵ","ჶ",
  "ჷ","ჸ","ჹ","ჺ","ჽ","ჾ","ჿ","Ꭰ","Ꭱ","Ꭲ","Ꭳ","Ꭴ","Ꭵ","Ꭶ","Ꭷ","Ꭸ","Ꭹ","Ꭺ",
  "Ꭻ","Ꭼ","Ꭽ","Ꭾ","Ꭿ","Ꮀ","Ꮁ","Ꮂ","Ꮃ","Ꮄ","Ꮅ","Ꮆ","Ꮇ","Ꮈ","Ꮉ","Ꮊ","Ꮋ","Ꮌ",
  "Ꮍ","Ꮎ","Ꮏ","Ꮐ","Ꮑ","Ꮒ","Ꮓ","Ꮔ","Ꮕ","Ꮖ","Ꮗ","Ꮘ","Ꮙ","Ꮚ","Ꮛ","Ꮜ","Ꮝ","Ꮞ",
  "Ꮟ","Ꮠ","Ꮡ","Ꮢ","Ꮣ","Ꮤ","Ꮥ","Ꮦ","Ꮧ","Ꮨ","Ꮩ","Ꮪ","Ꮫ","Ꮬ","Ꮭ","Ꮮ","Ꮯ","Ꮰ",
  "Ꮱ","Ꮲ","Ꮳ","Ꮴ","Ꮵ","Ꮶ","Ꮷ","Ꮸ","Ꮹ","Ꮺ","Ꮻ","Ꮼ","Ꮽ","Ꮾ","Ꮿ","Ᏸ","Ᏹ","Ᏺ",
  "Ᏻ","Ᏼ","Ᏽ","ᏸ","ᏹ","ᏺ","ᏻ","ᏼ","ᏽ","ᲀ","ᲁ","ᲂ","ᲃ","ᲄ","ᲅ","ᲆ","ᲇ","ᲈ",
  "Ᲊ","ᲊ","Ა","Ბ","Გ","Დ","Ე","Ვ","Ზ","Თ","Ი","Კ","Ლ","Მ","Ნ","Ო","Პ","Ჟ",
  "Რ","Ს","Ტ","Უ","Ფ","Ქ","Ღ","Ყ","Შ","Ჩ","Ც","Ძ","Წ","Ჭ","Ხ","Ჯ","Ჰ","Ჱ",
  "Ჲ","Ჳ","Ჴ","Ჵ","Ჶ","Ჷ","Ჸ","Ჹ","Ჺ","Ჽ","Ჾ","Ჿ","U+1D00","U+1D01",
  "U+1D02","U+1D03","U+1D04","U+1D05","U+1D06","U+1D07","U+1D08","U+1D09",
  "U+1D0A","U+1D0B","U+1D0C","U+1D0D","U+1D0E","U+1D0F","U+1D10","U+1D11",
  "U+1D12","U+1D13","U+1D14","U+1D15","U+1D16","U+1D17","U+1D18","U+1D19",
  "U+1D1A","U+1D1B","U+1D1C","U+1D1D","U+1D1E","U+1D1F","U+1D20","U+1D21",
  "U+1D22","U+1D23","U+1D24","U+1D25","U+1D26","U+1D27","U+1D28","U+1D29",
  "U+1D2A","U+1D2B","U+1D6B","U+1D6C","U+1D6D","U+1D6E","U+1D6F","U+1D70",
  "U+1D71","U+1D72","U+1D73","U+1D74","U+1D75","U+1D76","U+1D77","U+1D79",
  "U+1D7A","U+1D7B","U+1D7C","U+1D7D","U+1D7E","U+1D7F","ᶀ","ᶁ","ᶂ","ᶃ","ᶄ",
  "ᶅ","ᶆ","ᶇ","ᶈ","ᶉ","ᶊ","ᶋ","ᶌ","ᶍ","ᶎ","ᶏ","ᶐ","ᶑ","ᶒ","ᶓ","ᶔ","ᶕ","ᶖ",
  "ᶗ","ᶘ","ᶙ","ᶚ","U+1E00","U+1E01","U+1E02","U+1E03","U+1E04","U+1E05",
  "U+1E06","U+1E07","U+1E08","U+1E09","U+1E0A","U+1E0B","U+1E0C","U+1E0D",
  "U+1E0E","U+1E0F","U+1E10","U+1E11","U+1E12","U+1E13","U+1E14","U+1E15",
  "U+1E16","U+1E17","U+1E18","U+1E19","U+1E1A","U+1E1B","U+1E1C","U+1E1D",
  "U+1E1E","U+1E1F","U+1E20","U+1E21","U+1E22","U+1E23","U+1E24","U+1E25",
  "U+1E26","U+1E27","U+1E28","U+1E29","U+1E2A","U+1E2B","U+1E2C","U+1E2D",
  "U+1E2E","U+1E2F","U+1E30","U+1E31","U+1E32","U+1E33","U+1E34","U+1E35",
  "U+1E36","U+1E37","U+1E38","U+1E39","U+1E3A","U+1E3B","U+1E3C","U+1E3D",
  "U+1E3E","U+1E3F","U+1E40","U+1E41","U+1E42","U+1E43","U+1E44","U+1E45",
  "U+1E46","U+1E47","U+1E48","U+1E49","U+1E4A","U+1E4B","U+1E4C","U+1E4D",
  "U+1E4E","U+1E4F","U+1E50","U+1E51","U+1E52","U+1E53","U+1E54","U+1E55",
  "U+1E56","U+1E57","U+1E58","U+1E59","U+1E5A","U+1E5B","U+1E5C","U+1E5D",
  "U+1E5E","U+1E5F","U+1E60","U+1E61","U+1E62","U+1E63","U+1E64","U+1E65",
  "U+1E66","U+1E67","U+1E68","U+1E69","U+1E6A","U+1E6B","U+1E6C","U+1E6D",
  "U+1E6E","U+1E6F","U+1E70","U+1E71","U+1E72","U+1E73","U+1E74","U+1E75",
  "U+1E76","U+1E77","U+1E78","U+1E79","U+1E7A","U+1E7B","U+1E7C","U+1E7D",
  "U+1E7E","U+1E7F","Ẁ","ẁ","Ẃ","ẃ","Ẅ","ẅ","Ẇ","ẇ","Ẉ","ẉ","Ẋ","ẋ","Ẍ","ẍ",
  "Ẏ","ẏ","Ẑ","ẑ","Ẓ","ẓ","Ẕ","ẕ","ẖ","ẗ","ẘ","ẙ","ẚ","ẛ","ẜ","ẝ","ẞ","ẟ",
  "Ạ","ạ","Ả","ả","Ấ","ấ","Ầ","ầ","Ẩ","ẩ","Ẫ","ẫ","Ậ","ậ","Ắ","ắ","Ằ","ằ",
  "Ẳ","ẳ","Ẵ","ẵ","Ặ","ặ","Ẹ","ẹ","Ẻ","ẻ","Ẽ","ẽ","Ế","ế","Ề","ề","Ể","ể",
  "Ễ","ễ","Ệ","ệ","Ỉ","ỉ","Ị","ị","Ọ","ọ","Ỏ","ỏ","Ố","ố","Ồ","ồ","Ổ","ổ",
  "Ỗ","ỗ","Ộ","ộ","Ớ","ớ","Ờ","ờ","Ở","ở","Ỡ","ỡ","Ợ","ợ","Ụ","ụ","Ủ","ủ",
  "Ứ","ứ","Ừ","ừ","Ử","ử","Ữ","ữ","Ự","ự","Ỳ","ỳ","Ỵ","ỵ","Ỷ","ỷ","Ỹ","ỹ",
  "Ỻ","ỻ","Ỽ","ỽ","Ỿ","ỿ","U+1F00","U+1F01","U+1F02","U+1F03","U+1F04",
  "U+1F05","U+1F06","U+1F07","U+1F08","U+1F09","U+1F0A","U+1F0B","U+1F0C",
  "U+1F0D","U+1F0E","U+1F0F","U+1F10","U+1F11","U+1F12","U+1F13","U+1F14",
  "U+1F15","U+1F18","U+1F19","U+1F1A","U+1F1B","U+1F1C","U+1F1D","U+1F20",
  "U+1F21","U+1F22","U+1F23","U+1F24","U+1F25","U+1F26","U+1F27","U+1F28",
  "U+1F29","U+1F2A","U+1F2B","U+1F2C","U+1F2D","U+1F2E","U+1F2F","U+1F30",
  "U+1F31","U+1F32","U+1F33","U+1F34","U+1F35","U+1F36","U+1F37","U+1F38",
  "U+1F39","U+1F3A","U+1F3B","U+1F3C","U+1F3D","U+1F3E","U+1F3F","U+1F40",
  "U+1F41","U+1F42","U+1F43","U+1F44","U+1F45","U+1F48","U+1F49","U+1F4A",
  "U+1F4B","U+1F4C","U+1F4D","U+1F50","U+1F51","U+1F52","U+1F53","U+1F54",
  "U+1F55","U+1F56","U+1F57","U+1F59","U+1F5B","U+1F5D","U+1F5F","U+1F60",
  "U+1F61","U+1F62","U+1F63","U+1F64","U+1F65","U+1F66","U+1F67","U+1F68",
  "U+1F69","U+1F6A","U+1F6B","U+1F6C","U+1F6D","U+1F6E","U+1F6F","U+1F70",
  "U+1F71","U+1F72","U+1F73","U+1F74","U+1F75","U+1F76","U+1F77","U+1F78",
  "U+1F79","U+1F7A","U+1F7B","U+1F7C","U+1F7D","ᾀ","ᾁ","ᾂ","ᾃ","ᾄ","ᾅ","ᾆ",
  "ᾇ","ᾈ","ᾉ","ᾊ","ᾋ","ᾌ","ᾍ","ᾎ","ᾏ","ᾐ","ᾑ","ᾒ","ᾓ","ᾔ","ᾕ","ᾖ","ᾗ","ᾘ",
  "ᾙ","ᾚ","ᾛ","ᾜ","ᾝ","ᾞ","ᾟ","ᾠ","ᾡ","ᾢ","ᾣ","ᾤ","ᾥ","ᾦ","ᾧ","ᾨ","ᾩ","ᾪ",
  "ᾫ","ᾬ","ᾭ","ᾮ","ᾯ","ᾰ","ᾱ","ᾲ","ᾳ","ᾴ","ᾶ","ᾷ","Ᾰ","Ᾱ","Ὰ","Ά","ᾼ","ι",
  "ῂ","ῃ","ῄ","ῆ","ῇ","Ὲ","Έ","Ὴ","Ή","ῌ","ῐ","ῑ","ῒ","ΐ","ῖ","ῗ","Ῐ","Ῑ",
  "Ὶ","Ί","ῠ","ῡ","ῢ","ΰ","ῤ","ῥ","ῦ","ῧ","Ῠ","Ῡ","Ὺ","Ύ","Ῥ","ῲ","ῳ","ῴ",
  "ῶ","ῷ","Ὸ","Ό","Ὼ","Ώ","ῼ","U+2102","U+2107","U+210A","U+210B","U+210C",
  "U+210D","U+210E","U+210F","U+2110","U+2111","U+2112","U+2113","U+2115",
  "U+2119","U+211A","U+211B","U+211C","U+211D","U+2124","U+2126","U+2128",
  "U+212A","U+212B","U+212C","U+212D","U+212F","U+2130","U+2131","U+2132",
  "U+2133","U+2134","U+2139","U+213C","U+213D","U+213E","U+213F","U+2145",
  "U+2146","U+2147","U+2148","U+2149","U+214E","U+2160","U+2161","U+2162",
  "U+2163","U+2164","U+2165","U+2166","U+2167","U+2168","U+2169","U+216A",
  "U+216B","U+216C","U+216D","U+216E","U+216F","U+2170","U+2171","U+2172",
  "U+2173","U+2174","U+2175","U+2176","U+2177","U+2178","U+2179","U+217A",
  "U+217B","U+217C","U+217D","U+217E","U+217F","Ↄ","ↄ","Ⓐ","Ⓑ","Ⓒ","Ⓓ","Ⓔ",
  "Ⓕ","Ⓖ","Ⓗ","Ⓘ","Ⓙ","Ⓚ","Ⓛ","Ⓜ","Ⓝ","Ⓞ","Ⓟ","Ⓠ","Ⓡ","Ⓢ","Ⓣ","Ⓤ","Ⓥ","Ⓦ",
  "Ⓧ","Ⓨ","Ⓩ","ⓐ","ⓑ","ⓒ","ⓓ","ⓔ","ⓕ","ⓖ","ⓗ","ⓘ","ⓙ","ⓚ","ⓛ","ⓜ","ⓝ","ⓞ",
  "ⓟ","ⓠ","ⓡ","ⓢ","ⓣ","ⓤ","ⓥ","ⓦ","ⓧ","ⓨ","ⓩ","U+2C00","U+2C01","U+2C02",
  "U+2C03","U+2C04","U+2C05","U+2C06","U+2C07","U+2C08","U+2C09","U+2C0A",
  "U+2C0B","U+2C0C","U+2C0D","U+2C0E","U+2C0F","U+2C10","U+2C11","U+2C12",
  "U+2C13","U+2C14","U+2C15","U+2C16","U+2C17","U+2C18","U+2C19","U+2C1A",
  "U+2C1B","U+2C1C","U+2C1D","U+2C1E","U+2C1F","U+2C20","U+2C21","U+2C22",
  "U+2C23","U+2C24","U+2C25","U+2C26","U+2C27","U+2C28","U+2C29","U+2C2A",
  "U+2C2B","U+2C2C","U+2C2D","U+2C2E","U+2C2F","U+2C30","U+2C31","U+2C32",
  "U+2C33","U+2C34","U+2C35","U+2C36","U+2C37","U+2C38","U+2C39","U+2C3A",
  "U+2C3B","U+2C3C","U+2C3D","U+2C3E","U+2C3F","U+2C40","U+2C41","U+2C42",
  "U+2C43","U+2C44","U+2C45","U+2C46","U+2C47","U+2C48","U+2C49","U+2C4A",
  "U+2C4B","U+2C4C","U+2C4D","U+2C4E","U+2C4F","U+2C50","U+2C51","U+2C52",
  "U+2C53","U+2C54","U+2C55","U+2C56","U+2C57","U+2C58","U+2C59","U+2C5A",
  "U+2C5B","U+2C5C","U+2C5D","U+2C5E","U+2C5F","U+2C60","U+2C61","U+2C62",
  "U+2C63","U+2C64","U+2C65","U+2C66","U+2C67","U+2C68","U+2C69","U+2C6A",
  "U+2C6B","U+2C6C","U+2C6D","U+2C6E","U+2C6F","U+2C70","U+2C71","U+2C72",
  "U+2C73","U+2C74","U+2C75","U+2C76","U+2C77","U+2C78","U+2C79","U+2C7A",
  "U+2C7B","U+2C7E","U+2C7F","Ⲁ","ⲁ","Ⲃ","ⲃ","Ⲅ","ⲅ","Ⲇ","ⲇ","Ⲉ","ⲉ","Ⲋ",
  "ⲋ","Ⲍ","ⲍ","Ⲏ","ⲏ","Ⲑ","ⲑ","Ⲓ","ⲓ","Ⲕ","ⲕ","Ⲗ","ⲗ","Ⲙ","ⲙ","Ⲛ","ⲛ","Ⲝ",
  "ⲝ","Ⲟ","ⲟ","Ⲡ","ⲡ","Ⲣ","ⲣ","Ⲥ","ⲥ","Ⲧ","ⲧ","Ⲩ","ⲩ","Ⲫ","ⲫ","Ⲭ","ⲭ","Ⲯ",
  "ⲯ","Ⲱ","ⲱ","Ⲳ","ⲳ","Ⲵ","ⲵ","Ⲷ","ⲷ","Ⲹ","ⲹ","Ⲻ","ⲻ","Ⲽ","ⲽ","Ⲿ","ⲿ","Ⳁ",
  "ⳁ","Ⳃ","ⳃ","Ⳅ","ⳅ","Ⳇ","ⳇ","Ⳉ","ⳉ","Ⳋ","ⳋ","Ⳍ","ⳍ","Ⳏ","ⳏ","Ⳑ","ⳑ","Ⳓ",
  "ⳓ","Ⳕ","ⳕ","Ⳗ","ⳗ","Ⳙ","ⳙ","Ⳛ","ⳛ","Ⳝ","ⳝ","Ⳟ","ⳟ","Ⳡ","ⳡ","Ⳣ","ⳣ","ⳤ",
  "Ⳬ","ⳬ","Ⳮ","ⳮ","Ⳳ","ⳳ","U+2D00","U+2D01","U+2D02","U+2D03","U+2D04",
  "U+2D05","U+2D06","U+2D07","U+2D08","U+2D09","U+2D0A","U+2D0B","U+2D0C",
  "U+2D0D","U+2D0E","U+2D0F","U+2D10","U+2D11","U+2D12","U+2D13","U+2D14",
  "U+2D15","U+2D16","U+2D17","U+2D18","U+2D19","U+2D1A","U+2D1B","U+2D1C",
  "U+2D1D","U+2D1E","U+2D1F","U+2D20","U+2D21","U+2D22","U+2D23","U+2D24",
  "U+2D25","U+2D27","U+2D2D","U+A640","U+A641","U+A642","U+A643","U+A644",
  "U+A645","U+A646","U+A647","U+A648","U+A649","U+A64A","U+A64B","U+A64C",
  "U+A64D","U+A64E","U+A64F","U+A650","U+A651","U+A652","U+A653","U+A654",
  "U+A655","U+A656","U+A657","U+A658","U+A659","U+A65A","U+A65B","U+A65C",
  "U+A65D","U+A65E","U+A65F","U+A660","U+A661","U+A662","U+A663","U+A664",
  "U+A665","U+A666","U+A667","U+A668","U+A669","U+A66A","U+A66B","U+A66C",
  "U+A66D","Ꚁ","ꚁ","Ꚃ","ꚃ","Ꚅ","ꚅ","Ꚇ","ꚇ","Ꚉ","ꚉ","Ꚋ","ꚋ","Ꚍ","ꚍ","Ꚏ","ꚏ",
  "Ꚑ","ꚑ","Ꚓ","ꚓ","Ꚕ","ꚕ","Ꚗ","ꚗ","Ꚙ","ꚙ","Ꚛ","ꚛ","U+A722","U+A723",
  "U+A724","U+A725","U+A726","U+A727","U+A728","U+A729","U+A72A","U+A72B",
  "U+A72C","U+A72D","U+A72E","U+A72F","U+A730","U+A731","U+A732","U+A733",
  "U+A734","U+A735","U+A736","U+A737","U+A738","U+A739","U+A73A","U+A73B",
  "U+A73C","U+A73D","U+A73E","U+A73F","U+A740","U+A741","U+A742","U+A743",
  "U+A744","U+A745","U+A746","U+A747","U+A748","U+A749","U+A74A","U+A74B",
  "U+A74C","U+A74D","U+A74E","U+A74F","U+A750","U+A751","U+A752","U+A753",
  "U+A754","U+A755","U+A756","U+A757","U+A758","U+A759","U+A75A","U+A75B",
  "U+A75C","U+A75D","U+A75E","U+A75F","U+A760","U+A761","U+A762","U+A763",
  "U+A764","U+A765","U+A766","U+A767","U+A768","U+A769","U+A76A","U+A76B",
  "U+A76C","U+A76D","U+A76E","U+A76F","U+A771","U+A772","U+A773","U+A774",
  "U+A775","U+A776","U+A777","U+A778","U+A779","U+A77A","U+A77B","U+A77C",
  "U+A77D","U+A77E","U+A77F","Ꞁ","ꞁ","Ꞃ","ꞃ","Ꞅ","ꞅ","Ꞇ","ꞇ","Ꞌ","ꞌ","Ɥ",
  "ꞎ","Ꞑ","ꞑ","Ꞓ","ꞓ","ꞔ","ꞕ","Ꞗ","ꞗ","Ꞙ","ꞙ","Ꞛ","ꞛ","Ꞝ","ꞝ","Ꞟ","ꞟ","Ꞡ",
  "ꞡ","Ꞣ","ꞣ","Ꞥ","ꞥ","Ꞧ","ꞧ","Ꞩ","ꞩ","Ɦ","Ɜ","Ɡ","Ɬ","Ɪ","ꞯ","Ʞ","Ʇ","Ʝ",
  "Ꭓ","Ꞵ","ꞵ","Ꞷ","ꞷ","Ꞹ","ꞹ","Ꞻ","ꞻ","Ꞽ","ꞽ","Ꞿ","ꞿ","Ꟁ","ꟁ","Ꟃ","ꟃ","Ꞔ",
  "Ʂ","Ᶎ","Ꟈ","ꟈ","Ꟊ","ꟊ","Ɤ","Ꟍ","ꟍ","꟎","꟏","Ꟑ","ꟑ","꟒","ꟓ","꟔","ꟕ","Ꟗ",
  "ꟗ","Ꟙ","ꟙ","Ꟛ","ꟛ","Ƛ","Ꟶ","ꟶ","ꟺ","U+AB30","U+AB31","U+AB32","U+AB33",
  "U+AB34","U+AB35","U+AB36","U+AB37","U+AB38","U+AB39","U+AB3A","U+AB3B",
  "U+AB3C","U+AB3D","U+AB3E","U+AB3F","U+AB40","U+AB41","U+AB42","U+AB43",
  "U+AB44","U+AB45","U+AB46","U+AB47","U+AB48","U+AB49","U+AB4A","U+AB4B",
  "U+AB4C","U+AB4D","U+AB4E","U+AB4F","U+AB50","U+AB51","U+AB52","U+AB53",
  "U+AB54","U+AB55","U+AB56","U+AB57","U+AB58","U+AB59","U+AB5A","U+AB60",
  "U+AB61","U+AB62","U+AB63","U+AB64","U+AB65","U+AB66","U+AB67","U+AB68",
  "U+AB70","U+AB71","U+AB72","U+AB73","U+AB74","U+AB75","U+AB76","U+AB77",
  "U+AB78","U+AB79","U+AB7A","U+AB7B","U+AB7C","U+AB7D","U+AB7E","U+AB7F",
  "ꮀ","ꮁ","ꮂ","ꮃ","ꮄ","ꮅ","ꮆ","ꮇ","ꮈ","ꮉ","ꮊ","ꮋ","ꮌ","ꮍ","ꮎ","ꮏ","ꮐ","ꮑ",
  "ꮒ","ꮓ","ꮔ","ꮕ","ꮖ","ꮗ","ꮘ","ꮙ","ꮚ","ꮛ","ꮜ","ꮝ","ꮞ","ꮟ","ꮠ","ꮡ","ꮢ","ꮣ",
  "ꮤ","ꮥ","ꮦ","ꮧ","ꮨ","ꮩ","ꮪ","ꮫ","ꮬ","ꮭ","ꮮ","ꮯ","ꮰ","ꮱ","ꮲ","ꮳ","ꮴ","ꮵ",
  "ꮶ","ꮷ","ꮸ","ꮹ","ꮺ","ꮻ","ꮼ","ꮽ","ꮾ","ꮿ","U+FB00","U+FB01","U+FB02",
  "U+FB03","U+FB04","U+FB05","U+FB06","U+FB13","U+FB14","U+FB15","U+FB16",
  "U+FB17","U+FF21","U+FF22","U+FF23","U+FF24","U+FF25","U+FF26","U+FF27",
  "U+FF28","U+FF29","U+FF2A","U+FF2B","U+FF2C","U+FF2D","U+FF2E","U+FF2F",
  "U+FF30","U+FF31","U+FF32","U+FF33","U+FF34","U+FF35","U+FF36","U+FF37",
  "U+FF38","U+FF39","U+FF3A","U+FF41","U+FF42","U+FF43","U+FF44","U+FF45",
  "U+FF46","U+FF47","U+FF48","U+FF49","U+FF4A","U+FF4B","U+FF4C","U+FF4D",
  "U+FF4E","U+FF4F","U+FF50","U+FF51","U+FF52","U+FF53","U+FF54","U+FF55",
  "U+FF56","U+FF57","U+FF58","U+FF59","U+FF5A"}

CasedPairs ==
  {<<"U+D801","U+DC00">>,<<"U+D801","U+DC01">>,<<"U+D801","U+DC02">>,
  <<"U+D801","U+DC03">>,<<"U+D801","U+DC04">>,<<"U+D801","U+DC05">>,
  <<"U+D801","U+DC06">>,<<"U+D801","U+DC07">>,<<"U+D801","U+DC08">>,
  <<"U+D801","U+DC09">>,<<"U+D801","U+DC0A">>,<<"U+D801","U+DC0B">>,
  <<"U+D801","U+DC0C">>,<<"U+D801","U+DC0D">>,<<"U+D801","U+DC0E">>,
  <<"U+D801","U+DC0F">>,<<"U+D801","U+DC10">>,<<"U+D801","U+DC11">>,
  <<"U+D801","U+DC12">>,<<"U+D801","U+DC13">>,<<"U+D801","U+DC14">>,
  <<"U+D801","U+DC15">>,<<"U+D801","U+DC16">>,<<"U+D801","U+DC17">>,
  <<"U+D801","U+DC18">>,<<"U+D801","U+DC19">>,<<"U+D801","U+DC1A">>,
  <<"U+D801","U+DC1B">>,<<"U+D801","U+DC1C">>,<<"U+D801","U+DC1D">>,
  <<"U+D801","U+DC1E">>,<<"U+D801","U+DC1F">>,<<"U+D801","U+DC20">>,
  <<"U+D801","U+DC21">>,<<"U+D801","U+DC22">>,<<"U+D801","U+DC23">>,
  <<"U+D801","U+DC24">>,<<"U+D801","U+DC25">>,<<"U+D801","U+DC26">>,
  <<"U+D801","U+DC27">>,<<"U+D801","U+DC28">>,<<"U+D801","U+DC29">>,
  <<"U+D801","U+DC2A">>,<<"U+D801","U+DC2B">>,<<"U+D801","U+DC2C">>,
  <<"U+D801","U+DC2D">>,<<"U+D801","U+DC2E">>,<<"U+D801","U+DC2F">>,
  <<"U+D801","U+DC30">>,<<"U+D801","U+DC31">>,<<"U+D801","U+DC32">>,
  <<"U+D801","U+DC33">>,<<"U+D801","U+DC34">>,<<"U+D801","U+DC35">>,
  <<"U+D801","U+DC36">>,<<"U+D801","U+DC37">>,<<"U+D801","U+DC38">>,
  <<"U+D801","U+DC39">>,<<"U+D801","U+DC3A">>,<<"U+D801","U+DC3B">>,
  <<"U+D801","U+DC3C">>,<<"U+D801","U+DC3D">>,<<"U+D801","U+DC3E">>,
  <<"U+D801","U+DC3F">>,<<"U+D801","U+DC40">>,<<"U+D801","U+DC41">>,
  <<"U+D801","U+DC42">>,<<"U+D801","U+DC43">>,<<"U+D801","U+DC44">>,
  <<"U+D801","U+DC45">>,<<"U+D801","U+DC46">>,<<"U+D801","U+DC47">>,
  <<"U+D801","U+DC48">>,<<"U+D801","U+DC49">>,<<"U+D801","U+DC4A">>,
  <<"U+D801","U+DC4B">>,<<"U+D801","U+DC4C">>,<<"U+D801","U+DC4D">>,
  <<"U+D801","U+DC4E">>,<<"U+D801","U+DC4F">>,<<"U+D801","U+DCB0">>,
  <<"U+D801","U+DCB1">>,<<"U+D801","U+DCB2">>,<<"U+D801","U+DCB3">>,
  <<"U+D801","U+DCB4">>,<<"U+D801","U+DCB5">>,<<"U+D801","U+DCB6">>,
  <<"U+D801","U+DCB7">>,<<"U+D801","U+DCB8">>,<<"U+D801","U+DCB9">>,
  <<"U+D801","U+DCBA">>,<<"U+D801","U+DCBB">>,<<"U+D801","U+DCBC">>,
  <<"U+D801","U+DCBD">>,<<"U+D801","U+DCBE">>,<<"U+D801","U+DCBF">>,
  <<"U+D801","U+DCC0">>,<<"U+D801","U+DCC1">>,<<"U+D801","U+DCC2">>,
  <<"U+D801","U+DCC3">>,<<"U+D801","U+DCC4">>,<<"U+D801","U+DCC5">>,
  <<"U+D801","U+DCC6">>,<<"U+D801","U+DCC7">>,<<"U+D801","U+DCC8">>,
  <<"U+D801","U+DCC9">>,<<"U+D801","U+DCCA">>,<<"U+D801","U+DCCB">>,
  <<"U+D801","U+DCCC">>,<<"U+D801","U+DCCD">>,<<"U+D801","U+DCCE">>,
  <<"U+D801","U+DCCF">>,<<"U+D801","U+DCD0">>,<<"U+D801","U+DCD1">>,
  <<"U+D801","U+DCD2">>,<<"U+D801","U+DCD3">>,<<"U+D801","U+DCD8">>,
  <<"U+D801","U+DCD9">>,<<"U+D801","U+DCDA">>,<<"U+D801","U+DCDB">>,
  <<"U+D801","U+DCDC">>,<<"U+D801","U+DCDD">>,<<"U+D801","U+DCDE">>,
  <<"U+D801","U+DCDF">>,<<"U+D801","U+DCE0">>,<<"U+D801","U+DCE1">>,
  <<"U+D801","U+DCE2">>,<<"U+D801","U+DCE3">>,<<"U+D801","U+DCE4">>,
  <<"U+D801","U+DCE5">>,<<"U+D801","U+DCE6">>,<<"U+D801","U+DCE7">>,
  <<"U+D801","U+DCE8">>,<<"U+D801","U+DCE9">>,<<"U+D801","U+DCEA">>,
  <<"U+D801","U+DCEB">>,<<"U+D801","U+DCEC">>,<<"U+D801","U+DCED">>,
  <<"U+D801","U+DCEE">>,<<"U+D801","U+DCEF">>,<<"U+D801","U+DCF0">>,
  <<"U+D801","U+DCF1">>,<<"U+D801","U+DCF2">>,<<"U+D801","U+DCF3">>,
  <<"U+D801","U+DCF4">>,<<"U+D801","U+DCF5">>,<<"U+D801","U+DCF6">>,
  <<"U+D801","U+DCF7">>,<<"U+D801","U+DCF8">>,<<"U+D801","U+DCF9">>,
  <<"U+D801","U+DCFA">>,<<"U+D801","U+DCFB">>,<<"U+D801","U+DD70">>,
  <<"U+D801","U+DD71">>,<<"U+D801","U+DD72">>,<<"U+D801","U+DD73">>,
  <<"U+D801","U+DD74">>,<<"U+D801","U+DD75">>,<<"U+D801","U+DD76">>,
  <<"U+D801","U+DD77">>,<<"U+D801","U+DD78">>,<<"U+D801","U+DD79">>,
  <<"U+D801","U+DD7A">>,<<"U+D801","U+DD7C">>,<<"U+D801","U+DD7D">>,
  <<"U+D801","U+DD7E">>,<<"U+D801","U+DD7F">>,<<"U+D801","U+DD80">>,
  <<"U+D801","U+DD81">>,<<"U+D801","U+DD82">>,<<"U+D801","U+DD83">>,
  <<"U+D801","U+DD84">>,<<"U+D801","U+DD85">>,<<"U+D801","U+DD86">>,
  <<"U+D801","U+DD87">>,<<"U+D801","U+DD88">>,<<"U+D801","U+DD89">>,
  <<"U+D801","U+DD8A">>,<<"U+D801","U+DD8C">>,<<"U+D801","U+DD8D">>,
  <<"U+D801","U+DD8E">>,<<"U+D801","U+DD8F">>,<<"U+D801","U+DD90">>,
  <<"U+D801","U+DD91">>,<<"U+D801","U+DD92">>,<<"U+D801","U+DD94">>,
  <<"U+D801","U+DD95">>,<<"U+D801","U+DD97">>,<<"U+D801","U+DD98">>,
  <<"U+D801","U+DD99">>,<<"U+D801","U+DD9A">>,<<"U+D801","U+DD9B">>,
  <<"U+D801","U+DD9C">>,<<"U+D801","U+DD9D">>,<<"U+D801","U+DD9E">>,
  <<"U+D801","U+DD9F">>,<<"U+D801","U+DDA0">>,<<"U+D801","U+DDA1">>,
  <<"U+D801","U+DDA3">>,<<"U+D801","U+DDA4">>,<<"U+D801","U+DDA5">>,
  <<"U+D801","U+DDA6">>,<<"U+D801","U+DDA7">>,<<"U+D801","U+DDA8">>,
  <<"U+D801","U+DDA9">>,<<"U+D801","U+DDAA">>,<<"U+D801","U+DDAB">>,
  <<"U+D801","U+DDAC">>,<<"U+D801","U+DDAD">>,<<"U+D801","U+DDAE">>,
  <<"U+D801","U+DDAF">>,<<"U+D801","U+DDB0">>,<<"U+D801","U+DDB1">>,
  <<"U+D801","U+DDB3">>,<<"U+D801","U+DDB4">>,<<"U+D801","U+DDB5">>,
  <<"U+D801","U+DDB6">>,<<"U+D801","U+DDB7">>,<<"U+D801","U+DDB8">>,
  <<"U+D801","U+DDB9">>,<<"U+D801","U+DDBB">>,<<"U+D801","U+DDBC">>,
  <<"U+D803","U+DC80">>,<<"U+D803","U+DC81">>,<<"U+D803","U+DC82">>,
  <<"U+D803","U+DC83">>,<<"U+D803","U+DC84">>,<<"U+D803","U+DC85">>,
  <<"U+D803","U+DC86">>,<<"U+D803","U+DC87">>,<<"U+D803","U+DC88">>,
  <<"U+D803","U+DC89">>,<<"U+D803","U+DC8A">>,<<"U+D803","U+DC8B">>,
  <<"U+D803","U+DC8C">>,<<"U+D803","U+DC8D">>,<<"U+D803","U+DC8E">>,
  <<"U+D803","U+DC8F">>,<<"U+D803","U+DC90">>,<<"U+D803","U+DC91">>,
  <<"U+D803","U+DC92">>,<<"U+D803","U+DC93">>,<<"U+D803","U+DC94">>,
  <<"U+D803","U+DC95">>,<<"U+D803","U+DC96">>,<<"U+D803","U+DC97">>,
  <<"U+D803","U+DC98">>,<<"U+D803","U+DC99">>,<<"U+D803","U+DC9A">>,
  <<"U+D803","U+DC9B">>,<<"U+D803","U+DC9C">>,<<"U+D803","U+DC9D">>,
  <<"U+D803","U+DC9E">>,<<"U+D803","U+DC9F">>,<<"U+D803","U+DCA0">>,
  <<"U+D803","U+DCA1">>,<<"U+D803","U+DCA2">>,<<"U+D803","U+DCA3">>,
  <<"U+D803","U+DCA4">>,<<"U+D803","U+DCA5">>,<<"U+D803","U+DCA6">>,
  <<"U+D803","U+DCA7">>,<<"U+D803","U+DCA8">>,<<"U+D803","U+DCA9">>,
  <<"U+D803","U+DCAA">>,<<"U+D803","U+DCAB">>,<<"U+D803","U+DCAC">>,
  <<"U+D803","U+DCAD">>,<<"U+D803","U+DCAE">>,<<"U+D803","U+DCAF">>,
  <<"U+D803","U+DCB0">>,<<"U+D803","U+DCB1">>,<<"U+D803","U+DCB2">>,
  <<"U+D803","U+DCC0">>,<<"U+D803","U+DCC1">>,<<"U+D803","U+DCC2">>,
  <<"U+D803","U+DCC3">>,<<"U+D803","U+DCC4">>,<<"U+D803","U+DCC5">>,
  <<"U+D803","U+DCC6">>,<<"U+D803","U+DCC7">>,<<"U+D803","U+DCC8">>,
  <<"U+D803","U+DCC9">>,<<"U+D803","U+DCCA">>,<<"U+D803","U+DCCB">>,
  <<"U+D803","U+DCCC">>,<<"U+D803","U+DCCD">>,<<"U+D803","U+DCCE">>,
  <<"U+D803","U+DCCF">>,<<"U+D803","U+DCD0">>,<<"U+D803","U+DCD1">>,
  <<"U+D803","U+DCD2">>,<<"U+D803","U+DCD3">>,<<"U+D803","U+DCD4">>,
  <<"U+D803","U+DCD5">>,<<"U+D803","U+DCD6">>,<<"U+D803","U+DCD7">>,
  <<"U+D803","U+DCD8">>,<<"U+D803","U+DCD9">>,<<"U+D803","U+DCDA">>,
  <<"U+D803","U+DCDB">>,<<"U+D803","U+DCDC">>,<<"U+D803","U+DCDD">>,
  <<"U+D803","U+DCDE">>,<<"U+D803","U+DCDF">>,<<"U+D803","U+DCE0">>,
  <<"U+D803","U+DCE1">>,<<"U+D803","U+DCE2">>,<<"U+D803","U+DCE3">>,
  <<"U+D803","U+DCE4">>,<<"U+D803","U+DCE5">>,<<"U+D803","U+DCE6">>,
  <<"U+D803","U+DCE7">>,<<"U+D803","U+DCE8">>,<<"U+D803","U+DCE9">>,
  <<"U+D803","U+DCEA">>,<<"U+D803","U+DCEB">>,<<"U+D803","U+DCEC">>,
  <<"U+D803","U+DCED">>,<<"U+D803","U+DCEE">>,<<"U+D803","U+DCEF">>,
  <<"U+D803","U+DCF0">>,<<"U+D803","U+DCF1">>,<<"U+D803","U+DCF2">>,
  <<"U+D803","U+DD50">>,<<"U+D803","U+DD51">>,<<"U+D803","U+DD52">>,
  <<"U+D803","U+DD53">>,<<"U+D803","U+DD54">>,<<"U+D803","U+DD55">>,
  <<"U+D803","U+DD56">>,<<"U+D803","U+DD57">>,<<"U+D803","U+DD58">>,
  <<"U+D803","U+DD59">>,<<"U+D803","U+DD5A">>,<<"U+D803","U+DD5B">>,
  <<"U+D803","U+DD5C">>,<<"U+D803","U+DD5D">>,<<"U+D803","U+DD5E">>,
  <<"U+D803","U+DD5F">>,<<"U+D803","U+DD60">>,<<"U+D803","U+DD61">>,
  <<"U+D803","U+DD62">>,<<"U+D803","U+DD63">>,<<"U+D803","U+DD64">>,
  <<"U+D803","U+DD65">>,<<"U+D803","U+DD70">>,<<"U+D803","U+DD71">>,
  <<"U+D803","U+DD72">>,<<"U+D803","U+DD73">>,<<"U+D803","U+DD74">>,
  <<"U+D803","U+DD75">>,<<"U+D803","U+DD76">>,<<"U+D803","U+DD77">>,
  <<"U+D803","U+DD78">>,<<"U+D803","U+DD79">>,<<"U+D803","U+DD7A">>,
  <<"U+D803","U+DD7B">>,<<"U+D803","U+DD7C">>,<<"U+D803","U+DD7D">>,
  <<"U+D803","U+DD7E">>,<<"U+D803","U+DD7F">>,<<"U+D803","U+DD80">>,
  <<"U+D803","U+DD81">>,<<"U+D803","U+DD82">>,<<"U+D803","U+DD83">>,
  <<"U+D803","U+DD84">>,<<"U+D803","U+DD85">>,<<"U+D806","U+DCA0">>,
  <<"U+D806","U+DCA1">>,<<"U+D806","U+DCA2">>,<<"U+D806","U+DCA3">>,
  <<"U+D806","U+DCA4">>,<<"U+D806","U+DCA5">>,<<"U+D806","U+DCA6">>,
  <<"U+D806","U+DCA7">>,<<"U+D806","U+DCA8">>,<<"U+D806","U+DCA9">>,
  <<"U+D806","U+DCAA">>,<<"U+D806","U+DCAB">>,<<"U+D806","U+DCAC">>,
  <<"U+D806","U+DCAD">>,<<"U+D806","U+DCAE">>,<<"U+D806","U+DCAF">>,
  <<"U+D806","U+DCB0">>,<<"U+D806","U+DCB1">>,<<"U+D806","U+DCB2">>,
  <<"U+D806","U+DCB3">>,<<"U+D806","U+DCB4">>,<<"U+D806","U+DCB5">>,
  <<"U+D806","U+DCB6">>,<<"U+D806","U+DCB7">>,<<"U+D806","U+DCB8">>,
  <<"U+D806","U+DCB9">>,<<"U+D806","U+DCBA">>,<<"U+D806","U+DCBB">>,
  <<"U+D806","U+DCBC">>,<<"U+D806","U+DCBD">>,<<"U+D806","U+DCBE">>,
  <<"U+D806","U+DCBF">>,<<"U+D806","U+DCC0">>,<<"U+D806","U+DCC1">>,
  <<"U+D806","U+DCC2">>,<<"U+D806","U+DCC3">>,<<"U+D806","U+DCC4">>,
  <<"U+D806","U+DCC5">>,<<"U+D806","U+DCC6">>,<<"U+D806","U+DCC7">>,
  <<"U+D806","U+DCC8">>,<<"U+D806","U+DCC9">>,<<"U+D806","U+DCCA">>,
  <<"U+D806","U+DCCB">>,<<"U+D806","U+DCCC">>,<<"U+D806","U+DCCD">>,
  <<"U+D806","U+DCCE">>,<<"U+D806","U+DCCF">>,<<"U+D806","U+DCD0">>,
  <<"U+D806","U+DCD1">>,<<"U+D806","U+DCD2">>,<<"U+D806","U+DCD3">>,
  <<"U+D806","U+DCD4">>,<<"U+D806","U+DCD5">>,<<"U+D806","U+DCD6">>,
  <<"U+D806","U+DCD7">>,<<"U+D806","U+DCD8">>,<<"U+D806","U+DCD9">>,
  <<"U+D806","U+DCDA">>,<<"U+D806","U+DCDB">>,<<"U+D806","U+DCDC">>,
  <<"U+D806","U+DCDD">>,<<"U+D806","U+DCDE">>,<<"U+D806","U+DCDF">>,
  <<"U+D81B","U+DE40">>,<<"U+D81B","U+DE41">>,<<"U+D81B","U+DE42">>,
  <<"U+D81B","U+DE43">>,<<"U+D81B","U+DE44">>,<<"U+D81B","U+DE45">>,
  <<"U+D81B","U+DE46">>,<<"U+D81B","U+DE47">>,<<"U+D81B","U+DE48">>,
  <<"U+D81B","U+DE49">>,<<"U+D81B","U+DE4A">>,<<"U+D81B","U+DE4B">>,
  <<"U+D81B","U+DE4C">>,<<"U+D81B","U+DE4D">>,<<"U+D81B","U+DE4E">>,
  <<"U+D81B","U+DE4F">>,<<"U+D81B","U+DE50">>,<<"U+D81B","U+DE51">>,
  <<"U+D81B","U+DE52">>,<<"U+D81B","U+DE53">>,<<"U+D81B","U+DE54">>,
  <<"U+D81B","U+DE55">>,<<"U+D81B","U+DE56">>,<<"U+D81B","U+DE57">>,
  <<"U+D81B","U+DE58">>,<<"U+D81B","U+DE59">>,<<"U+D81B","U+DE5A">>,
  <<"U+D81B","U+DE5B">>,<<"U+D81B","U+DE5C">>,<<"U+D81B","U+DE5D">>,
  <<"U+D81B","U+DE5E">>,<<"U+D81B","U+DE5F">>,<<"U+D81B","U+DE60">>,
  <<"U+D81B","U+DE61">>,<<"U+D81B","U+DE62">>,<<"U+D81B","U+DE63">>,
  <<"U+D81B","U+DE64">>,<<"U+D81B","U+DE65">>,<<"U+D81B","U+DE66">>,
  <<"U+D81B","U+DE67">>,<<"U+D81B","U+DE68">>,<<"U+D81B","U+DE69">>,
  <<"U+D81B","U+DE6A">>,<<"U+D81B","U+DE6B">>,<<"U+D81B","U+DE6C">>,
  <<"U+D81B","U+DE6D">>,<<"U+D81B","U+DE6E">>,<<"U+D81B","U+DE6F">>,
  <<"U+D81B","U+DE70">>,<<"U+D81B","U+DE71">>,<<"U+D81B","U+DE72">>,
  <<"U+D81B","U+DE73">>,<<"U+D81B","U+DE74">>,<<"U+D81B","U+DE75">>,
  <<"U+D81B","U+DE76">>,<<"U+D81B","U+DE77">>,<<"U+D81B","U+DE78">>,
  <<"U+D81B","U+DE79">>,<<"U+D81B","U+DE7A">>,<<"U+D81B","U+DE7B">>,
  <<"U+D81B","U+DE7C">>,<<"U+D81B","U+DE7D">>,<<"U+D81B","U+DE7E">>,
  <<"U+D81B","U+DE7F">>,<<"U+D81B","U+DEA0">>,<<"U+D81B","U+DEA1">>,
  <<"U+D81B","U+DEA2">>,<<"U+D81B","U+DEA3">>,<<"U+D81B","U+DEA4">>,
  <<"U+D81B","U+DEA5">>,<<"U+D81B","U+DEA6">>,<<"U+D81B","U+DEA7">>,
  <<"U+D81B","U+DEA8">>,<<"U+D81B","U+DEA9">>,<<"U+D81B","U+DEAA">>,
  <<"U+D81B","U+DEAB">>,<<"U+D81B","U+DEAC">>,<<"U+D81B","U+DEAD">>,
  <<"U+D81B","U+DEAE">>,<<"U+D81B","U+DEAF">>,<<"U+D81B","U+DEB0">>,
  <<"U+D81B","U+DEB1">>,<<"U+D81B","U+DEB2">>,<<"U+D81B","U+DEB3">>,
  <<"U+D81B","U+DEB4">>,<<"U+D81B","U+DEB5">>,<<"U+D81B","U+DEB6">>,
  <<"U+D81B","U+DEB7">>,<<"U+D81B","U+DEB8">>,<<"U+D81B","U+DEBB">>,
  <<"U+D81B","U+DEBC">>,<<"U+D81B","U+DEBD">>,<<"U+D81B","U+DEBE">>,
  <<"U+D81B","U+DEBF">>,<<"U+D81B","U+DEC0">>,<<"U+D81B","U+DEC1">>,
  <<"U+D81B","U+DEC2">>,<<"U+D81B","U+DEC3">>,<<"U+D81B","U+DEC4">>,
  <<"U+D81B","U+DEC5">>,<<"U+D81B","U+DEC6">>,<<"U+D81B","U+DEC7">>,
  <<"U+D81B","U+DEC8">>,<<"U+D81B","U+DEC9">>,<<"U+D81B","U+DECA">>,
  <<"U+D81B","U+DECB">>,<<"U+D81B","U+DECC">>,<<"U+D81B","U+DECD">>,
  <<"U+D81B","U+DECE">>,<<"U+D81B","U+DECF">>,<<"U+D81B","U+DED0">>,
  <<"U+D81B","U+DED1">>,<<"U+D81B","U+DED2">>,<<"U+D81B","U+DED3">>,
  <<"U+D835","U+DC00">>,<<"U+D835","U+DC01">>,<<"U+D835","U+DC02">>,
  <<"U+D835","U+DC03">>,<<"U+D835","U+DC04">>,<<"U+D835","U+DC05">>,
  <<"U+D835","U+DC06">>,<<"U+D835","U+DC07">>,<<"U+D835","U+DC08">>,
  <<"U+D835","U+DC09">>,<<"U+D835","U+DC0A">>,<<"U+D835","U+DC0B">>,
  <<"U+D835","U+DC0C">>,<<"U+D835","U+DC0D">>,<<"U+D835","U+DC0E">>,
  <<"U+D835","U+DC0F">>,<<"U+D835","U+DC10">>,<<"U+D835","U+DC11">>,
  <<"U+D835","U+DC12">>,<<"U+D835","U+DC13">>,<<"U+D835","U+DC14">>,
  <<"U+D835","U+DC15">>,<<"U+D835","U+DC16">>,<<"U+D835","U+DC17">>,
  <<"U+D835","U+DC18">>,<<"U+D835","U+DC19">>,<<"U+D835","U+DC1A">>,
  <<"U+D835","U+DC1B">>,<<"U+D835","U+DC1C">>,<<"U+D835","U+DC1D">>,
  <<"U+D835","U+DC1E">>,<<"U+D835","U+DC1F">>,<<"U+D835","U+DC20">>,
  <<"U+D835","U+DC21">>,<<"U+D835","U+DC22">>,<<"U+D835","U+DC23">>,
  <<"U+D835","U+DC24">>,<<"U+D835","U+DC25">>,<<"U+D835","U+DC26">>,
  <<"U+D835","U+DC27">>,<<"U+D835","U+DC28">>,<<"U+D835","U+DC29">>,
  <<"U+D835","U+DC2A">>,<<"U+D835","U+DC2B">>,<<"U+D835","U+DC2C">>,
  <<"U+D835","U+DC2D">>,<<"U+D835","U+DC2E">>,<<"U+D835","U+DC2F">>,
  <<"U+D835","U+DC30">>,<<"U+D835","U+DC31">>,<<"U+D835","U+DC32">>,
  <<"U+D835","U+DC33">>,<<"U+D835","U+DC34">>,<<"U+D835","U+DC35">>,
  <<"U+D835","U+DC36">>,<<"U+D835","U+DC37">>,<<"U+D835","U+DC38">>,
  <<"U+D835","U+DC39">>,<<"U+D835","U+DC3A">>,<<"U+D835","U+DC3B">>,
  <<"U+D835","U+DC3C">>,<<"U+D835","U+DC3D">>,<<"U+D835","U+DC3E">>,
  <<"U+D835","U+DC3F">>,<<"U+D835","U+DC40">>,<<"U+D835","U+DC41">>,
  <<"U+D835","U+DC42">>,<<"U+D835","U+DC43">>,<<"U+D835","U+DC44">>,
  <<"U+D835","U+DC45">>,<<"U+D835","U+DC46">>,<<"U+D835","U+DC47">>,
  <<"U+D835","U+DC48">>,<<"U+D835","U+DC49">>,<<"U+D835","U+DC4A">>,
  <<"U+D835","U+DC4B">>,<<"U+D835","U+DC4C">>,<<"U+D835","U+DC4D">>,
  <<"U+D835","U+DC4E">>,<<"U+D835","U+DC4F">>,<<"U+D835","U+DC50">>,
  <<"U+D835","U+DC51">>,<<"U+D835","U+DC52">>,<<"U+D835","U+DC53">>,
  <<"U+D835","U+DC54">>,<<"U+D835","U+DC56">>,<<"U+D835","U+DC57">>,
  <<"U+D835","U+DC58">>,<<"U+D835","U+DC59">>,<<"U+D835","U+DC5A">>,
  <<"U+D835","U+DC5B">>,<<"U+D835","U+DC5C">>,<<"U+D835","U+DC5D">>,
  <<"U+D835","U+DC5E">>,<<"U+D835","U+DC5F">>,<<"U+D835","U+DC60">>,
  <<"U+D835","U+DC61">>,<<"U+D835","U+DC62">>,<<"U+D835","U+DC63">>,
  <<"U+D835","U+DC64">>,<<"U+D835","U+DC65">>,<<"U+D835","U+DC66">>,
  <<"U+D835","U+DC67">>,<<"U+D835","U+DC68">>,<<"U+D835","U+DC69">>,
  <<"U+D835","U+DC6A">>,<<"U+D835","U+DC6B">>,<<"U+D835","U+DC6C">>,
  <<"U+D835","U+DC6D">>,<<"U+D835","U+DC6E">>,<<"U+D835","U+DC6F">>,
  <<"U+D835","U+DC70">>,<<"U+D835","U+DC71">>,<<"U+D835","U+DC72">>,
  <<"U+D835","U+DC73">>,<<"U+D835","U+DC74">>,<<"U+D835","U+DC75">>,
  <<"U+D835","U+DC76">>,<<"U+D835","U+DC77">>,<<"U+D835","U+DC78">>,
  <<"U+D835","U+DC79">>,<<"U+D835","U+DC7A">>,<<"U+D835","U+DC7B">>,
  <<"U+D835","U+DC7C">>,<<"U+D835","U+DC7D">>,<<"U+D835","U+DC7E">>,
  <<"U+D835","U+DC7F">>,<<"U+D835","U+DC80">>,<<"U+D835","U+DC81">>,
  <<"U+D835","U+DC82">>,<<"U+D835","U+DC83">>,<<"U+D835","U+DC84">>,
  <<"U+D835","U+DC85">>,<<"U+D835","U+DC86">>,<<"U+D835","U+DC87">>,
  <<"U+D835","U+DC88">>,<<"U+D835","U+DC89">>,<<"U+D835","U+DC8A">>,
  <<"U+D835","U+DC8B">>,<<"U+D835","U+DC8C">>,<<"U+D835","U+DC8D">>,
  <<"U+D835","U+DC8E">>,<<"U+D835","U+DC8F">>,<<"U+D835","U+DC90">>,
  <<"U+D835","U+DC91">>,<<"U+D835","U+DC92">>,<<"U+D835","U+DC93">>,
  <<"U+D835","U+DC94">>,<<"U+D835","U+DC95">>,<<"U+D835","U+DC96">>,
  <<"U+D835","U+DC97">>,<<"U+D835","U+DC98">>,<<"U+D835","U+DC99">>,
  <<"U+D835","U+DC9A">>,<<"U+D835","U+DC9B">>,<<"U+D835","U+DC9C">>,
  <<"U+D835","U+DC9E">>,<<"U+D835","U+DC9F">>,<<"U+D835","U+DCA2">>,
  <<"U+D835","U+DCA5">>,<<"U+D835","U+DCA6">>,<<"U+D835","U+DCA9">>,
  <<"U+D835","U+DCAA">>,<<"U+D835","U+DCAB">>,<<"U+D835","U+DCAC">>,
  <<"U+D835","U+DCAE">>,<<"U+D835","U+DCAF">>,<<"U+D835","U+DCB0">>,
  <<"U+D835","U+DCB1">>,<<"U+D835","U+DCB2">>,<<"U+D835","U+DCB3">>,
  <<"U+D835","U+DCB4">>,<<"U+D835","U+DCB5">>,<<"U+D835","U+DCB6">>,
  <<"U+D835","U+DCB7">>,<<"U+D835","U+DCB8">>,<<"U+D835","U+DCB9">>,
  <<"U+D835","U+DCBB">>,<<"U+D835","U+DCBD">>,<<"U+D835","U+DCBE">>,
  <<"U+D835","U+DCBF">>,<<"U+D835","U+DCC0">>,<<"U+D835","U+DCC1">>,
  <<"U+D835","U+DCC2">>,<<"U+D835","U+DCC3">>,<<"U+D835","U+DCC5">>,
  <<"U+D835","U+DCC6">>,<<"U+D835","U+DCC7">>,<<"U+D835","U+DCC8">>,
  <<"U+D835","U+DCC9">>,<<"U+D835","U+DCCA">>,<<"U+D835","U+DCCB">>,
  <<"U+D835","U+DCCC">>,<<"U+D835","U+DCCD">>,<<"U+D835","U+DCCE">>,
  <<"U+D835","U+DCCF">>,<<"U+D835","U+DCD0">>,<<"U+D835","U+DCD1">>,
  <<"U+D835","U+DCD2">>,<<"U+D835","U+DCD3">>,<<"U+D835","U+DCD4">>,
  <<"U+D835","U+DCD5">>,<<"U+D835","U+DCD6">>,<<"U+D835","U+DCD7">>,
  <<"U+D835","U+DCD8">>,<<"U+D835","U+DCD9">>,<<"U+D835","U+DCDA">>,
  <<"U+D835","U+DCDB">>,<<"U+D835","U+DCDC">>,<<"U+D835","U+DCDD">>,
  <<"U+D835","U+DCDE">>,<<"U+D835","U+DCDF">>,<<"U+D835","U+DCE0">>,
  <<"U+D835","U+DCE1">>,<<"U+D835","U+DCE2">>,<<"U+D835","U+DCE3">>,
  <<"U+D835","U+DCE4">>,<<"U+D835","U+DCE5">>,<<"U+D835","U+DCE6">>,
  <<"U+D835","U+DCE7">>,<<"U+D835","U+DCE8">>,<<"U+D835","U+DCE9">>,
  <<"U+D835","U+DCEA">>,<<"U+D835","U+DCEB">>,<<"U+D835","U+DCEC">>,
  <<"U+D835","U+DCED">>,<<"U+D835","U+DCEE">>,<<"U+D835","U+DCEF">>,
  <<"U+D835","U+DCF0">>,<<"U+D835","U+DCF1">>,<<"U+D835","U+DCF2">>,
  <<"U+D835","U+DCF3">>,<<"U+D835","U+DCF4">>,<<"U+D835","U+DCF5">>,
  <<"U+D835","U+DCF6">>,<<"U+D835","U+DCF7">>,<<"U+D835","U+DCF8">>,
  <<"U+D835","U+DCF9">>,<<"U+D835","U+DCFA">>,<<"U+D835","U+DCFB">>,
  <<"U+D835","U+DCFC">>,<<"U+D835","U+DCFD">>,<<"U+D835","U+DCFE">>,
  <<"U+D835","U+DCFF">>,<<"U+D835","U+DD00">>,<<"U+D835","U+DD01">>,
  <<"U+D835","U+DD02">>,<<"U+D835","U+DD03">>,<<"U+D835","U+DD04">>,
  <<"U+D835","U+DD05">>,<<"U+D835","U+DD07">>,<<"U+D835","U+DD08">>,
  <<"U+D835","U+DD09">>,<<"U+D835","U+DD0A">>,<<"U+D835","U+DD0D">>,
  <<"U+D835","U+DD0E">>,<<"U+D835","U+DD0F">>,<<"U+D835","U+DD10">>,
  <<"U+D835","U+DD11">>,<<"U+D835","U+DD12">>,<<"U+D835","U+DD13">>,
  <<"U+D835","U+DD14">>,<<"U+D835","U+DD16">>,<<"U+D835","U+DD17">>,
  <<"U+D835","U+DD18">>,<<"U+D835","U+DD19">>,<<"U+D835","U+DD1A">>,
  <<"U+D835","U+DD1B">>,<<"U+D835","U+DD1C">>,<<"U+D835","U+DD1E">>,
  <<"U+D835","U+DD1F">>,<<"U+D835","U+DD20">>,<<"U+D835","U+DD21">>,
  <<"U+D835","U+DD22">>,<<"U+D835","U+DD23">>,<<"U+D835","U+DD24">>,
  <<"U+D835","U+DD25">>,<<"U+D835","U+DD26">>,<<"U+D835","U+DD27">>,
  <<"U+D835","U+DD28">>,<<"U+D835","U+DD29">>,<<"U+D835","U+DD2A">>,
  <<"U+D835","U+DD2B">>,<<"U+D835","U+DD2C">>,<<"U+D835","U+DD2D">>,
  <<"U+D835","U+DD2E">>,<<"U+D835","U+DD2F">>,<<"U+D835","U+DD30">>,
  <<"U+D835","U+DD31">>,<<"U+D835","U+DD32">>,<<"U+D835","U+DD33">>,
  <<"U+D835","U+DD34">>,<<"U+D835","U+DD35">>,<<"U+D835","U+DD36">>,
  <<"U+D835","U+DD37">>,<<"U+D835","U+DD38">>,<<"U+D835","U+DD39">>,
  <<"U+D835","U+DD3B">>,<<"U+D835","U+DD3C">>,<<"U+D835","U+DD3D">>,
  <<"U+D835","U+DD3E">>,<<"U+D835","U+DD40">>,<<"U+D835","U+DD41">>,
  <<"U+D835","U+DD42">>,<<"U+D835","U+DD43">>,<<"U+D835","U+DD44">>,
  <<"U+D835","U+DD46">>,<<"U+D835","U+DD4A">>,<<"U+D835","U+DD4B">>,
  <<"U+D835","U+DD4C">>,<<"U+D835","U+DD4D">>,<<"U+D835","U+DD4E">>,
  <<"U+D835","U+DD4F">>,<<"U+D835","U+DD50">>,<<"U+D835","U+DD52">>,
  <<"U+D835","U+DD53">>,<<"U+D835","U+DD54">>,<<"U+D835","U+DD55">>,
  <<"U+D835","U+DD56">>,<<"U+D835","U+DD57">>,<<"U+D835","U+DD58">>,
  <<"U+D835","U+DD59">>,<<"U+D835","U+DD5A">>,<<"U+D835","U+DD5B">>,
  <<"U+D835","U+DD5C">>,<<"U+D835","U+DD5D">>,<<"U+D835","U+DD5E">>,
  <<"U+D835","U+DD5F">>,<<"U+D835","U+DD60">>,<<"U+D835","U+DD61">>,
  <<"U+D835","U+DD62">>,<<"U+D835","U+DD63">>,<<"U+D835","U+DD64">>,
  <<"U+D835","U+DD65">>,<<"U+D835","U+DD66">>,<<"U+D835","U+DD67">>,
  <<"U+D835","U+DD68">>,<<"U+D835","U+DD69">>,<<"U+D835","U+DD6A">>,
  <<"U+D835","U+DD6B">>,<<"U+D835","U+DD6C">>,<<"U+D835","U+DD6D">>,
  <<"U+D835","U+DD6E">>,<<"U+D835","U+DD6F">>,<<"U+D835","U+DD70">>,
  <<"U+D835","U+DD71">>,<<"U+D835","U+DD72">>,<<"U+D835","U+DD73">>,
  <<"U+D835","U+DD74">>,<<"U+D835","U+DD75">>,<<"U+D835","U+DD76">>,
  <<"U+D835","U+DD77">>,<<"U+D835","U+DD78">>,<<"U+D835","U+DD79">>,
  <<"U+D835","U+DD7A">>,<<"U+D835","U+DD7B">>,<<"U+D835","U+DD7C">>,
  <<"U+D835","U+DD7D">>,<<"U+D835","U+DD7E">>,<<"U+D835","U+DD7F">>,
  <<"U+D835","U+DD80">>,<<"U+D835","U+DD81">>,<<"U+D835","U+DD82">>,
  <<"U+D835","U+DD83">>,<<"U+D835","U+DD84">>,<<"U+D835","U+DD85">>,
  <<"U+D835","U+DD86">>,<<"U+D835","U+DD87">>,<<"U+D835","U+DD88">>,
  <<"U+D835","U+DD89">>,<<"U+D835","U+DD8A">>,<<"U+D835","U+DD8B">>,
  <<"U+D835","U+DD8C">>,<<"U+D835","U+DD8D">>,<<"U+D835","U+DD8E">>,
  <<"U+D835","U+DD8F">>,<<"U+D835","U+DD90">>,<<"U+D835","U+DD91">>,
  <<"U+D835","U+DD92">>,<<"U+D835","U+DD93">>,<<"U+D835","U+DD94">>,
  <<"U+D835","U+DD95">>,<<"U+D835","U+DD96">>,<<"U+D835","U+DD97">>,
  <<"U+D835","U+DD98">>,<<"U+D835","U+DD99">>,<<"U+D835","U+DD9A">>,
  <<"U+D835","U+DD9B">>,<<"U+D835","U+DD9C">>,<<"U+D835","U+DD9D">>,
  <<"U+D835","U+DD9E">>,<<"U+D835","U+DD9F">>,<<"U+D835","U+DDA0">>,
  <<"U+D835","U+DDA1">>,<<"U+D835","U+DDA2">>,<<"U+D835","U+DDA3">>,
  <<"U+D835","U+DDA4">>,<<"U+D835","U+DDA5">>,<<"U+D835","U+DDA6">>,
  <<"U+D835","U+DDA7">>,<<"U+D835","U+DDA8">>,<<"U+D835","U+DDA9">>,
  <<"U+D835","U+DDAA">>,<<"U+D835","U+DDAB">>,<<"U+D835","U+DDAC">>,
  <<"U+D835","U+DDAD">>,<<"U+D835","U+DDAE">>,<<"U+D835","U+DDAF">>,
  <<"U+D835","U+DDB0">>,<<"U+D835","U+DDB1">>,<<"U+D835","U+DDB2">>,
  <<"U+D835","U+DDB3">>,<<"U+D835","U+DDB4">>,<<"U+D835","U+DDB5">>,
  <<"U+D835","U+DDB6">>,<<"U+D835","U+DDB7">>,<<"U+D835","U+DDB8">>,
  <<"U+D835","U+DDB9">>,<<"U+D835","U+DDBA">>,<<"U+D835","U+DDBB">>,
  <<"U+D835","U+DDBC">>,<<"U+D835","U+DDBD">>,<<"U+D835","U+DDBE">>,
  <<"U+D835","U+DDBF">>,<<"U+D835","U+DDC0">>,<<"U+D835","U+DDC1">>,
  <<"U+D835","U+DDC2">>,<<"U+D835","U+DDC3">>,<<"U+D835","U+DDC4">>,
  <<"U+D835","U+DDC5">>,<<"U+D835","U+DDC6">>,<<"U+D835","U+DDC7">>,
  <<"U+D835","U+DDC8">>,<<"U+D835","U+DDC9">>,<<"U+D835","U+DDCA">>,
  <<"U+D835","U+DDCB">>,<<"U+D835","U+DDCC">>,<<"U+D835","U+DDCD">>,
  <<"U+D835","U+DDCE">>,<<"U+D835","U+DDCF">>,<<"U+D835","U+DDD0">>,
  <<"U+D835","U+DDD1">>,<<"U+D835","U+DDD2">>,<<"U+D835","U+DDD3">>,
  <<"U+D835","U+DDD4">>,<<"U+D835","U+DDD5">>,<<"U+D835","U+DDD6">>,
  <<"U+D835","U+DDD7">>,<<"U+D835","U+DDD8">>,<<"U+D835","U+DDD9">>,
  <<"U+D835","U+DDDA">>,<<"U+D835","U+DDDB">>,<<"U+D835","U+DDDC">>,
  <<"U+D835","U+DDDD">>,<<"U+D835","U+DDDE">>,<<"U+D835","U+DDDF">>,
  <<"U+D835","U+DDE0">>,<<"U+D835","U+DDE1">>,<<"U+D835","U+DDE2">>,
  <<"U+D835","U+DDE3">>,<<"U+D835","U+DDE4">>,<<"U+D835","U+DDE5">>,
  <<"U+D835","U+DDE6">>,<<"U+D835","U+DDE7">>,<<"U+D835","U+DDE8">>,
  <<"U+D835","U+DDE9">>,<<"U+D835","U+DDEA">>,<<"U+D835","U+DDEB">>,
  <<"U+D835","U+DDEC">>,<<"U+D835","U+DDED">>,<<"U+D835","U+DDEE">>,
  <<"U+D835","U+DDEF">>,<<"U+D835","U+DDF0">>,<<"U+D835","U+DDF1">>,
  <<"U+D835","U+DDF2">>,<<"U+D835","U+DDF3">>,<<"U+D835","U+DDF4">>,
  <<"U+D835","U+DDF5">>,<<"U+D835","U+DDF6">>,<<"U+D835","U+DDF7">>,
  <<"U+D835","U+DDF8">>,<<"U+D835","U+DDF9">>,<<"U+D835","U+DDFA">>,
  <<"U+D835","U+DDFB">>,<<"U+D835","U+DDFC">>,<<"U+D835","U+DDFD">>,
  <<"U+D835","U+DDFE">>,<<"U+D835","U+DDFF">>,<<"U+D835","U+DE00">>,
  <<"U+D835","U+DE01">>,<<"U+D835","U+DE02">>,<<"U+D835","U+DE03">>,
  <<"U+D835","U+DE04">>,<<"U+D835","U+DE05">>,<<"U+D835","U+DE06">>,
  <<"U+D835","U+DE07">>,<<"U+D835","U+DE08">>,<<"U+D835","U+DE09">>,
  <<"U+D835","U+DE0A">>,<<"U+D835","U+DE0B">>,<<"U+D835","U+DE0C">>,
  <<"U+D835","U+DE0D">>,<<"U+D835","U+DE0E">>,<<"U+D835","U+DE0F">>,
  <<"U+D835","U+DE10">>,<<"U+D835","U+DE11">>,<<"U+D835","U+DE12">>,
  <<"U+D835","U+DE13">>,<<"U+D835","U+DE14">>,<<"U+D835","U+DE15">>,
  <<"U+D835","U+DE16">>,<<"U+D835","U+DE17">>,<<"U+D835","U+DE18">>,
  <<"U+D835","U+DE19">>,<<"U+D835","U+DE1A">>,<<"U+D835","U+DE1B">>,
  <<"U+D835","U+DE1C">>,<<"U+D835","U+DE1D">>,<<"U+D835","U+DE1E">>,
  <<"U+D835","U+DE1F">>,<<"U+D835","U+DE20">>,<<"U+D835","U+DE21">>,
  <<"U+D835","U+DE22">>,<<"U+D835","U+DE23">>,<<"U+D835","U+DE24">>,
  <<"U+D835","U+DE25">>,<<"U+D835","U+DE26">>,<<"U+D835","U+DE27">>,
  <<"U+D835","U+DE28">>,<<"U+D835","U+DE29">>,<<"U+D835","U+DE2A">>,
  <<"U+D835","U+DE2B">>,<<"U+D835","U+DE2C">>,<<"U+D835","U+DE2D">>,
  <<"U+D835","U+DE2E">>,<<"U+D835","U+DE2F">>,<<"U+D835","U+DE30">>,
  <<"U+D835","U+DE31">>,<<"U+D835","U+DE32">>,<<"U+D835","U+DE33">>,
  <<"U+D835","U+DE34">>,<<"U+D835","U+DE35">>,<<"U+D835","U+DE36">>,
  <<"U+D835","U+DE37">>,<<"U+D835","U+DE38">>,<<"U+D835","U+DE39">>,
  <<"U+D835","U+DE3A">>,<<"U+D835","U+DE3B">>,<<"U+D835","U+DE3C">>,
  <<"U+D835","U+DE3D">>,<<"U+D835","U+DE3E">>,<<"U+D835","U+DE3F">>,
  <<"U+D835","U+DE40">>,<<"U+D835","U+DE41">>,<<"U+D835","U+DE42">>,
  <<"U+D835","U+DE43">>,<<"U+D835","U+DE44">>,<<"U+D835","U+DE45">>,
  <<"U+D835","U+DE46">>,<<"U+D835","U+DE47">>,<<"U+D835","U+DE48">>,
  <<"U+D835","U+DE49">>,<<"U+D835","U+DE4A">>,<<"U+D835","U+DE4B">>,
  <<"U+D835","U+DE4C">>,<<"U+D835","U+DE4D">>,<<"U+D835","U+DE4E">>,
  <<"U+D835","U+DE4F">>,<<"U+D835","U+DE50">>,<<"U+D835","U+DE51">>,
  <<"U+D835","U+DE52">>,<<"U+D835","U+DE53">>,<<"U+D835","U+DE54">>,
  <<"U+D835","U+DE55">>,<<"U+D835","U+DE56">>,<<"U+D835","U+DE57">>,
  <<"U+D835","U+DE58">>,<<"U+D835","U+DE59">>,<<"U+D835","U+DE5A">>,
  <<"U+D835","U+DE5B">>,<<"U+D835","U+DE5C">>,<<"U+D835","U+DE5D">>,
  <<"U+D835","U+DE5E">>,<<"U+D835","U+DE5F">>,<<"U+D835","U+DE60">>,
  <<"U+D835","U+DE61">>,<<"U+D835","U+DE62">>,<<"U+D835","U+DE63">>,
  <<"U+D835","U+DE64">>,<<"U+D835","U+DE65">>,<<"U+D835","U+DE66">>,
  <<"U+D835","U+DE67">>,<<"U+D835","U+DE68">>,<<"U+D835","U+DE69">>,
  <<"U+D835","U+DE6A">>,<<"U+D835","U+DE6B">>,<<"U+D835","U+DE6C">>,
  <<"U+D835","U+DE6D">>,<<"U+D835","U+DE6E">>,<<"U+D835","U+DE6F">>,
  <<"U+D835","U+DE70">>,<<"U+D835","U+DE71">>,<<"U+D835","U+DE72">>,
  <<"U+D835","U+DE73">>,<<"U+D835","U+DE74">>,<<"U+D835","U+DE75">>,
  <<"U+D835","U+DE76">>,<<"U+D835","U+DE77">>,<<"U+D835","U+DE78">>,
  <<"U+D835","U+DE79">>,<<"U+D835","U+DE7A">>,<<"U+D835","U+DE7B">>,
  <<"U+D835","U+DE7C">>,<<"U+D835","U+DE7D">>,<<"U+D835","U+DE7E">>,
  <<"U+D835","U+DE7F">>,<<"U+D835","U+DE80">>,<<"U+D835","U+DE81">>,
  <<"U+D835","U+DE82">>,<<"U+D835","U+DE83">>,<<"U+D835","U+DE84">>,
  <<"U+D835","U+DE85">>,<<"U+D835","U+DE86">>,<<"U+D835","U+DE87">>,
  <<"U+D835","U+DE88">>,<<"U+D835","U+DE89">>,<<"U+D835","U+DE8A">>,
  <<"U+D835","U+DE8B">>,<<"U+D835","U+DE8C">>,<<"U+D835","U+DE8D">>,
  <<"U+D835","U+DE8E">>,<<"U+D835","U+DE8F">>,<<"U+D835","U+DE90">>,
  <<"U+D835","U+DE91">>,<<"U+D835","U+DE92">>,<<"U+D835","U+DE93">>,
  <<"U+D835","U+DE94">>,<<"U+D835","U+DE95">>,<<"U+D835","U+DE96">>,
  <<"U+D835","U+DE97">>,<<"U+D835","U+DE98">>,<<"U+D835","U+DE99">>,
  <<"U+D835","U+DE9A">>,<<"U+D835","U+DE9B">>,<<"U+D835","U+DE9C">>,
  <<"U+D835","U+DE9D">>,<<"U+D835","U+DE9E">>,<<"U+D835","U+DE9F">>,
  <<"U+D835","U+DEA0">>,<<"U+D835","U+DEA1">>,<<"U+D835","U+DEA2">>,
  <<"U+D835","U+DEA3">>,<<"U+D835","U+DEA4">>,<<"U+D835","U+DEA5">>,
  <<"U+D835","U+DEA8">>,<<"U+D835","U+DEA9">>,<<"U+D835","U+DEAA">>,
  <<"U+D835","U+DEAB">>,<<"U+D835","U+DEAC">>,<<"U+D835","U+DEAD">>,
  <<"U+D835","U+DEAE">>,<<"U+D835","U+DEAF">>,<<"U+D835","U+DEB0">>,
  <<"U+D835","U+DEB1">>,<<"U+D835","U+DEB2">>,<<"U+D835","U+DEB3">>,
  <<"U+D835","U+DEB4">>,<<"U+D835","U+DEB5">>,<<"U+D835","U+DEB6">>,
  <<"U+D835","U+DEB7">>,<<"U+D835","U+DEB8">>,<<"U+D835","U+DEB9">>,
  <<"U+D835","U+DEBA">>,<<"U+D835","U+DEBB">>,<<"U+D835","U+DEBC">>,
  <<"U+D835","U+DEBD">>,<<"U+D835","U+DEBE">>,<<"U+D835","U+DEBF">>,
  <<"U+D835","U+DEC0">>,<<"U+D835","U+DEC2">>,<<"U+D835","U+DEC3">>,
  <<"U+D835","U+DEC4">>,<<"U+D835","U+DEC5">>,<<"U+D835","U+DEC6">>,
  <<"U+D835","U+DEC7">>,<<"U+D835","U+DEC8">>,<<"U+D835","U+DEC9">>,
  <<"U+D835","U+DECA">>,<<"U+D835","U+DECB">>,<<"U+D835","U+DECC">>,
  <<"U+D835","U+DECD">>,<<"U+D835","U+DECE">>,<<"U+D835","U+DECF">>,
  <<"U+D835","U+DED0">>,<<"U+D835","U+DED1">>,<<"U+D835","U+DED2">>,
  <<"U+D835","U+DED3">>,<<"U+D835","U+DED4">>,<<"U+D835","U+DED5">>,
  <<"U+D835","U+DED6">>,<<"U+D835","U+DED7">>,<<"U+D835","U+DED8">>,
  <<"U+D835","U+DED9">>,<<"U+D835","U+DEDA">>,<<"U+D835","U+DEDC">>,
  <<"U+D835","U+DEDD">>,<<"U+D835","U+DEDE">>,<<"U+D835","U+DEDF">>,
  <<"U+D835","U+DEE0">>,<<"U+D835","U+DEE1">>,<<"U+D835","U+DEE2">>,
  <<"U+D835","U+DEE3">>,<<"U+D835","U+DEE4">>,<<"U+D835","U+DEE5">>,
  <<"U+D835","U+DEE6">>,<<"U+D835","U+DEE7">>,<<"U+D835","U+DEE8">>,
  <<"U+D835","U+DEE9">>,<<"U+D835","U+DEEA">>,<<"U+D835","U+DEEB">>,
  <<"U+D835","U+DEEC">>,<<"U+D835","U+DEED">>,<<"U+D835","U+DEEE">>,
  <<"U+D835","U+DEEF">>,<<"U+D835","U+DEF0">>,<<"U+D835","U+DEF1">>,
  <<"U+D835","U+DEF2">>,<<"U+D835","U+DEF3">>,<<"U+D835","U+DEF4">>,
  <<"U+D835","U+DEF5">>,<<"U+D835","U+DEF6">>,<<"U+D835","U+DEF7">>,
  <<"U+D835","U+DEF8">>,<<"U+D835","U+DEF9">>,<<"U+D835","U+DEFA">>,
  <<"U+D835","U+DEFC">>,<<"U+D835","U+DEFD">>,<<"U+D835","U+DEFE">>,
  <<"U+D835","U+DEFF">>,<<"U+D835","U+DF00">>,<<"U+D835","U+DF01">>,
  <<"U+D835","U+DF02">>,<<"U+D835","U+DF03">>,<<"U+D835","U+DF04">>,
  <<"U+D835","U+DF05">>,<<"U+D835","U+DF06">>,<<"U+D835","U+DF07">>,
  <<"U+D835","U+DF08">>,<<"U+D835","U+DF09">>,<<"U+D835","U+DF0A">>,
  <<"U+D835","U+DF0B">>,<<"U+D835","U+DF0C">>,<<"U+D835","U+DF0D">>,
  <<"U+D835","U+DF0E">>,<<"U+D835","U+DF0F">>,<<"U+D835","U+DF10">>,
  <<"U+D835","U+DF11">>,<<"U+D835","U+DF12">>,<<"U+D835","U+DF13">>,
  <<"U+D835","U+DF14">>,<<"U+D835","U+DF16">>,<<"U+D835","U+DF17">>,
  <<"U+D835","U+DF18">>,<<"U+D835","U+DF19">>,<<"U+D835","U+DF1A">>,
  <<"U+D835","U+DF1B">>,<<"U+D835","U+DF1C">>,<<"U+D835","U+DF1D">>,
  <<"U+D835","U+DF1E">>,<<"U+D835","U+DF1F">>,<<"U+D835","U+DF20">>,
  <<"U+D835","U+DF21">>,<<"U+D835","U+DF22">>,<<"U+D835","U+DF23">>,
  <<"U+D835","U+DF24">>,<<"U+D835","U+DF25">>,<<"U+D835","U+DF26">>,
  <<"U+D835","U+DF27">>,<<"U+D835","U+DF28">>,<<"U+D835","U+DF29">>,
  <<"U+D835","U+DF2A">>,<<"U+D835","U+DF2B">>,<<"U+D835","U+DF2C">>,
  <<"U+D835","U+DF2D">>,<<"U+D835","U+DF2E">>,<<"U+D835","U+DF2F">>,
  <<"U+D835","U+DF30">>,<<"U+D835","U+DF31">>,<<"U+D835","U+DF32">>,
  <<"U+D835","U+DF33">>,<<"U+D835","U+DF34">>,<<"U+D835","U+DF36">>,
  <<"U+D835","U+DF37">>,<<"U+D835","U+DF38">>,<<"U+D835","U+DF39">>,
  <<"U+D835","U+DF3A">>,<<"U+D835","U+DF3B">>,<<"U+D835","U+DF3C">>,
  <<"U+D835","U+DF3D">>,<<"U+D835","U+DF3E">>,<<"U+D835","U+DF3F">>,
  <<"U+D835","U+DF40">>,<<"U+D835","U+DF41">>,<<"U+D835","U+DF42">>,
  <<"U+D835","U+DF43">>,<<"U+D835","U+DF44">>,<<"U+D835","U+DF45">>,
  <<"U+D835","U+DF46">>,<<"U+D835","U+DF47">>,<<"U+D835","U+DF48">>,
  <<"U+D835","U+DF49">>,<<"U+D835","U+DF4A">>,<<"U+D835","U+DF4B">>,
  <<"U+D835","U+DF4C">>,<<"U+D835","U+DF4D">>,<<"U+D835","U+DF4E">>,
  <<"U+D835","U+DF50">>,<<"U+D835","U+DF51">>,<<"U+D835","U+DF52">>,
  <<"U+D835","U+DF53">>,<<"U+D835","U+DF54">>,<<"U+D835","U+DF55">>,
  <<"U+D835","U+DF56">>,<<"U+D835","U+DF57">>,<<"U+D835","U+DF58">>,
  <<"U+D835","U+DF59">>,<<"U+D835","U+DF5A">>,<<"U+D835","U+DF5B">>,
  <<"U+D835","U+DF5C">>,<<"U+D835","U+DF5D">>,<<"U+D835","U+DF5E">>,
  <<"U+D835","U+DF5F">>,<<"U+D835","U+DF60">>,<<"U+D835","U+DF61">>,
  <<"U+D835","U+DF62">>,<<"U+D835","U+DF63">>,<<"U+D835","U+DF64">>,
  <<"U+D835","U+DF65">>,<<"U+D835","U+DF66">>,<<"U+D835","U+DF67">>,
  <<"U+D835","U+DF68">>,<<"U+D835","U+DF69">>,<<"U+D835","U+DF6A">>,
  <<"U+D835","U+DF6B">>,<<"U+D835","U+DF6C">>,<<"U+D835","U+DF6D">>,
  <<"U+D835","U+DF6E">>,<<"U+D835","U+DF70">>,<<"U+D835","U+DF71">>,
  <<"U+D835","U+DF72">>,<<"U+D835","U+DF73">>,<<"U+D835","U+DF74">>,
  <<"U+D835","U+DF75">>,<<"U+D835","U+DF76">>,<<"U+D835","U+DF77">>,
  <<"U+D835","U+DF78">>,<<"U+D835","U+DF79">>,<<"U+D835","U+DF7A">>,
  <<"U+D835","U+DF7B">>,<<"U+D835","U+DF7C">>,<<"U+D835","U+DF7D">>,
  <<"U+D835","U+DF7E">>,<<"U+D835","U+DF7F">>,<<"U+D835","U+DF80">>,
  <<"U+D835","U+DF81">>,<<"U+D835","U+DF82">>,<<"U+D835","U+DF83">>,
  <<"U+D835","U+DF84">>,<<"U+D835","U+DF85">>,<<"U+D835","U+DF86">>,
  <<"U+D835","U+DF87">>,<<"U+D835","U+DF88">>,<<"U+D835","U+DF8A">>,
  <<"U+D835","U+DF8B">>,<<"U+D835","U+DF8C">>,<<"U+D835","U+DF8D">>,
  <<"U+D835","U+DF8E">>,<<"U+D835","U+DF8F">>,<<"U+D835","U+DF90">>,
  <<"U+D835","U+DF91">>,<<"U+D835","U+DF92">>,<<"U+D835","U+DF93">>,
  <<"U+D835","U+DF94">>,<<"U+D835","U+DF95">>,<<"U+D835","U+DF96">>,
  <<"U+D835","U+DF97">>,<<"U+D835","U+DF98">>,<<"U+D835","U+DF99">>,
  <<"U+D835","U+DF9A">>,<<"U+D835","U+DF9B">>,<<"U+D835","U+DF9C">>,
  <<"U+D835","U+DF9D">>,<<"U+D835","U+DF9E">>,<<"U+D835","U+DF9F">>,
  <<"U+D835","U+DFA0">>,<<"U+D835","U+DFA1">>,<<"U+D835","U+DFA2">>,
  <<"U+D835","U+DFA3">>,<<"U+D835","U+DFA4">>,<<"U+D835","U+DFA5">>,
  <<"U+D835","U+DFA6">>,<<"U+D835","U+DFA7">>,<<"U+D835","U+DFA8">>,
  <<"U+D835","U+DFAA">>,<<"U+D835","U+DFAB">>,<<"U+D835","U+DFAC">>,
  <<"U+D835","U+DFAD">>,<<"U+D835","U+DFAE">>,<<"U+D835","U+DFAF">>,
  <<"U+D835","U+DFB0">>,<<"U+D835","U+DFB1">>,<<"U+D835","U+DFB2">>,
  <<"U+D835","U+DFB3">>,<<"U+D835","U+DFB4">>,<<"U+D835","U+DFB5">>,
  <<"U+D835","U+DFB6">>,<<"U+D835","U+DFB7">>,<<"U+D835","U+DFB8">>,
  <<"U+D835","U+DFB9">>,<<"U+D835","U+DFBA">>,<<"U+D835","U+DFBB">>,
  <<"U+D835","U+DFBC">>,<<"U+D835","U+DFBD">>,<<"U+D835","U+DFBE">>,
  <<"U+D835","U+DFBF">>,<<"U+D835","U+DFC0">>,<<"U+D835","U+DFC1">>,
  <<"U+D835","U+DFC2">>,<<"U+D835","U+DFC4">>,<<"U+D835","U+DFC5">>,
  <<"U+D835","U+DFC6">>,<<"U+D835","U+DFC7">>,<<"U+D835","U+DFC8">>,
  <<"U+D835","U+DFC9">>,<<"U+D835","U+DFCA">>,<<"U+D835","U+DFCB">>,
  <<"U+D837","U+DF00">>,<<"U+D837","U+DF01">>,<<"U+D837","U+DF02">>,
  <<"U+D837","U+DF03">>,<<"U+D837","U+DF04">>,<<"U+D837","U+DF05">>,
  <<"U+D837","U+DF06">>,<<"U+D837","U+DF07">>,<<"U+D837","U+DF08">>,
  <<"U+D837","U+DF09">>,<<"U+D837","U+DF0B">>,<<"U+D837","U+DF0C">>,
  <<"U+D837","U+DF0D">>,<<"U+D837","U+DF0E">>,<<"U+D837","U+DF0F">>,
  <<"U+D837","U+DF10">>,<<"U+D837","U+DF11">>,<<"U+D837","U+DF12">>,
  <<"U+D837","U+DF13">>,<<"U+D837","U+DF14">>,<<"U+D837","U+DF15">>,
  <<"U+D837","U+DF16">>,<<"U+D837","U+DF17">>,<<"U+D837","U+DF18">>,
  <<"U+D837","U+DF19">>,<<"U+D837","U+DF1A">>,<<"U+D837","U+DF1B">>,
  <<"U+D837","U+DF1C">>,<<"U+D837","U+DF1D">>,<<"U+D837","U+DF1E">>,
  <<"U+D837","U+DF25">>,<<"U+D837","U+DF26">>,<<"U+D837","U+DF27">>,
  <<"U+D837","U+DF28">>,<<"U+D837","U+DF29">>,<<"U+D837","U+DF2A">>,
  <<"U+D83A","U+DD00">>,<<"U+D83A","U+DD01">>,<<"U+D83A","U+DD02">>,
  <<"U+D83A","U+DD03">>,<<"U+D83A","U+DD04">>,<<"U+D83A","U+DD05">>,
  <<"U+D83A","U+DD06">>,<<"U+D83A","U+DD07">>,<<"U+D83A","U+DD08">>,
  <<"U+D83A","U+DD09">>,<<"U+D83A","U+DD0A">>,<<"U+D83A","U+DD0B">>,
  <<"U+D83A","U+DD0C">>,<<"U+D83A","U+DD0D">>,<<"U+D83A","U+DD0E">>,
  <<"U+D83A","U+DD0F">>,<<"U+D83A","U+DD10">>,<<"U+D83A","U+DD11">>,
  <<"U+D83A","U+DD12">>,<<"U+D83A","U+DD13">>,<<"U+D83A","U+DD14">>,
  <<"U+D83A","U+DD15">>,<<"U+D83A","U+DD16">>,<<"U+D83A","U+DD17">>,
  <<"U+D83A","U+DD18">>,<<"U+D83A","U+DD19">>,<<"U+D83A","U+DD1A">>,
  <<"U+D83A","U+DD1B">>,<<"U+D83A","U+DD1C">>,<<"U+D83A","U+DD1D">>,
  <<"U+D83A","U+DD1E">>,<<"U+D83A","U+DD1F">>,<<"U+D83A","U+DD20">>,
  <<"U+D83A","U+DD21">>,<<"U+D83A","U+DD22">>,<<"U+D83A","U+DD23">>,
  <<"U+D83A","U+DD24">>,<<"U+D83A","U+DD25">>,<<"U+D83A","U+DD26">>,
  <<"U+D83A","U+DD27">>,<<"U+D83A","U+DD28">>,<<"U+D83A","U+DD29">>,
  <<"U+D83A","U+DD2A">>,<<"U+D83A","U+DD2B">>,<<"U+D83A","U+DD2C">>,
  <<"U+D83A","U+DD2D">>,<<"U+D83A","U+DD2E">>,<<"U+D83A","U+DD2F">>,
  <<"U+D83A","U+DD30">>,<<"U+D83A","U+DD31">>,<<"U+D83A","U+DD32">>,
  <<"U+D83A","U+DD33">>,<<"U+D83A","U+DD34">>,<<"U+D83A","U+DD35">>,
  <<"U+D83A","U+DD36">>,<<"U+D83A","U+DD37">>,<<"U+D83A","U+DD38">>,
  <<"U+D83A","U+DD39">>,<<"U+D83A","U+DD3A">>,<<"U+D83A","U+DD3B">>,
  <<"U+D83A","U+DD3C">>,<<"U+D83A","U+DD3D">>,<<"U+D83A","U+DD3E">>,
  <<"U+D83A","U+DD3F">>,<<"U+D83A","U+DD40">>,<<"U+D83A","U+DD41">>,
  <<"U+D83A","U+DD42">>,<<"U+D83A","U+DD43">>,<<"U+D83C","U+DD30">>,
  <<"U+D83C","U+DD31">>,<<"U+D83C","U+DD32">>,<<"U+D83C","U+DD33">>,
  <<"U+D83C","U+DD34">>,<<"U+D83C","U+DD35">>,<<"U+D83C","U+DD36">>,
  <<"U+D83C","U+DD37">>,<<"U+D83C","U+DD38">>,<<"U+D83C","U+DD39">>,
  <<"U+D83C","U+DD3A">>,<<"U+D83C","U+DD3B">>,<<"U+D83C","U+DD3C">>,
  <<"U+D83C","U+DD3D">>,<<"U+D83C","U+DD3E">>,<<"U+D83C","U+DD3F">>,
  <<"U+D83C","U+DD40">>,<<"U+D83C","U+DD41">>,<<"U+D83C","U+DD42">>,
  <<"U+D83C","U+DD43">>,<<"U+D83C","U+DD44">>,<<"U+D83C","U+DD45">>,
  <<"U+D83C","U+DD46">>,<<"U+D83C","U+DD47">>,<<"U+D83C","U+DD48">>,
  <<"U+D83C","U+DD49">>,<<"U+D83C","U+DD50">>,<<"U+D83C","U+DD51">>,
  <<"U+D83C","U+DD52">>,<<"U+D83C","U+DD53">>,<<"U+D83C","U+DD54">>,
  <<"U+D83C","U+DD55">>,<<"U+D83C","U+DD56">>,<<"U+D83C","U+DD57">>,
  <<"U+D83C","U+DD58">>,<<"U+D83C","U+DD59">>,<<"U+D83C","U+DD5A">>,
  <<"U+D83C","U+DD5B">>,<<"U+D83C","U+DD5C">>,<<"U+D83C","U+DD5D">>,
  <<"U+D83C","U+DD5E">>,<<"U+D83C","U+DD5F">>,<<"U+D83C","U+DD60">>,
  <<"U+D83C","U+DD61">>,<<"U+D83C","U+DD62">>,<<"U+D83C","U+DD63">>,
  <<"U+D83C","U+DD64">>,<<"U+D83C","U+DD65">>,<<"U+D83C","U+DD66">>,
  <<"U+D83C","U+DD67">>,<<"U+D83C","U+DD68">>,<<"U+D83C","U+DD69">>,
  <<"U+D83C","U+DD70">>,<<"U+D83C","U+DD71">>,<<"U+D83C","U+DD72">>,
  <<"U+D83C","U+DD73">>,<<"U+D83C","U+DD74">>,<<"U+D83C","U+DD75">>,
  <<"U+D83C","U+DD76">>,<<"U+D83C","U+DD77">>,<<"U+D83C","U+DD78">>,
  <<"U+D83C","U+DD79">>,<<"U+D83C","U+DD7A">>,<<"U+D83C","U+DD7B">>,
  <<"U+D83C","U+DD7C">>,<<"U+D83C","U+DD7D">>,<<"U+D83C","U+DD7E">>,
  <<"U+D83C","U+DD7F">>,<<"U+D83C","U+DD80">>,<<"U+D83C","U+DD81">>,
  <<"U+D83C","U+DD82">>,<<"U+D83C","U+DD83">>,<<"U+D83C","U+DD84">>,
  <<"U+D83C","U+DD85">>,<<"U+D83C","U+DD86">>,<<"U+D83C","U+DD87">>,
  <<"U+D83C","U+DD88">>,<<"U+D83C","U+DD89">>}

CaseIgnorableUnits ==
  {"'",".",":","^","U+0060","¨","­","¯","´","·","¸","ʰ","ʱ","ʲ","ʳ","ʴ","ʵ",
  "ʶ","ʷ","ʸ","ʹ","ʺ","ʻ","ʼ","ʽ","ʾ","ʿ","ˀ","ˁ","˂","˃","˄","˅","ˆ","ˇ",
  "ˈ","ˉ","ˊ","ˋ","ˌ","ˍ","ˎ","ˏ","ː","ˑ","˒","˓","˔","˕","˖","˗","˘","˙",
  "˚","˛","˜","˝","˞","˟","ˠ","ˡ","ˢ","ˣ","ˤ","˥","˦","˧","˨","˩","˪","˫",
  "ˬ","˭","ˮ","˯","˰","˱","˲","˳","˴","˵","˶","˷","˸","˹","˺","˻","˼","˽",
  "˾","˿","U+0300","U+0301","U+0302","U+0303","U+0304","U+0305","U+0306",
  "U+0307","U+0308","U+0309","U+030A","U+030B","U+030C","U+030D","U+030E",
  "U+030F","U+0310","U+0311","U+0312","U+0313","U+0314","U+0315","U+0316",
  "U+0317","U+0318","U+0319","U+031A","U+031B","U+031C","U+031D","U+031E",
  "U+031F","U+0320","U+0321","U+0322","U+0323","U+0324","U+0325","U+0326",
  "U+0327","U+0328","U+0329","U+032A","U+032B","U+032C","U+032D","U+032E",
  "U+032F","U+0330","U+0331","U+0332","U+0333","U+0334","U+0335","U+0336",
  "U+0337","U+0338","U+0339","U+033A","U+033B","U+033C","U+033D","U+033E",
  "U+033F","U+0340","U+0341","U+0342","U+0343","U+0344","U+0345","U+0346",
  "U+0347","U+0348","U+0349","U+034A","U+034B","U+034C","U+034D","U+034E",
  "U+034F","U+0350","U+0351","U+0352","U+0353","U+0354","U+0355","U+0356",
  "U+0357","U+0358","U+0359","U+035A","U+035B","U+035C","U+035D","U+035E",
  "U+035F","U+0360","U+0361","U+0362","U+0363","U+0364","U+0365","U+0366",
  "U+0367","U+0368","U+0369","U+036A","U+036B","U+036C","U+036D","U+036E",
  "U+036F","U+0374","U+0375","U+037A","΄","΅","·","҃","҄","҅","҆","҇","҈",
  "҉","U+0559","U+055F","֑","֒","֓","֔","֕","֖","֗","֘","֙","֚","֛","֜","֝",
  "֞","֟","֠","֡","֢","֣","֤","֥","֦","֧","֨","֩","֪","֫","֬","֭","֮","֯",
  "ְ","ֱ","ֲ","ֳ","ִ","ֵ","ֶ","ַ","ָ","ֹ","ֺ","ֻ","ּ","ֽ","ֿ","ׁ","ׂ","ׄ",
  "ׅ","ׇ","״","U+0600","U+0601","U+0602","U+0603","U+0604","U+0605",
  "U+0610","U+0611","U+0612","U+0613","U+0614","U+0615","U+0616","U+0617",
  "U+0618","U+0619","U+061A","U+061C","U+0640","U+064B","U+064C","U+064D",
  "U+064E","U+064F","U+0650","U+0651","U+0652","U+0653","U+0654","U+0655",
  "U+0656","U+0657","U+0658","U+0659","U+065A","U+065B","U+065C","U+065D",
  "U+065E","U+065F","U+0670","ۖ","ۗ","ۘ","ۙ","ۚ","ۛ","ۜ","۝","۟","۠","ۡ",
  "ۢ","ۣ","ۤ","ۥ","ۦ","ۧ","ۨ","۪","۫","۬","ۭ","U+070F","U+0711","U+0730",
  "U+0731","U+0732","U+0733","U+0734","U+0735","U+0736","U+0737","U+0738",
  "U+0739","U+073A","U+073B","U+073C","U+073D","U+073E","U+073F","U+0740",
  "U+0741","U+0742","U+0743","U+0744","U+0745","U+0746","U+0747","U+0748",
  "U+0749","U+074A","ަ","ާ","ި","ީ","ު","ޫ","ެ","ޭ","ޮ","ޯ","ް","߫","߬","߭",
  "߮","߯","߰","߱","߲","߳","ߴ","ߵ","ߺ","߽","U+0816","U+0817","U+0818",
  "U+0819","U+081A","U+081B","U+081C","U+081D","U+081E","U+081F","U+0820",
  "U+0821","U+0822","U+0823","U+0824","U+0825","U+0826","U+0827","U+0828",
  "U+0829","U+082A","U+082B","U+082C","U+082D","U+0859","U+085A","U+085B",
  "࢈","࢐","࢑","ࢗ","࢘","࢙","࢚","࢛","࢜","࢝","࢞","࢟","ࣉ","࣊","࣋","࣌","࣍","࣎",
  "࣏","࣐","࣑","࣒","࣓","ࣔ","ࣕ","ࣖ","ࣗ","ࣘ","ࣙ","ࣚ","ࣛ","ࣜ","ࣝ","ࣞ","ࣟ","࣠",
  "࣡","࣢","ࣣ","ࣤ","ࣥ","ࣦ","ࣧ","ࣨ","ࣩ","࣪","࣫","࣬","࣭","࣮","࣯","ࣰ","ࣱ","ࣲ",
  "ࣳ","ࣴ","ࣵ","ࣶ","ࣷ","ࣸ","ࣹ","ࣺ","ࣻ","ࣼ","ࣽ","ࣾ","ࣿ","U+0900","U+0901",
  "U+0902","U+093A","U+093C","U+0941","U+0942","U+0943","U+0944","U+0945",
  "U+0946","U+0947","U+0948","U+094D","U+0951","U+0952","U+0953","U+0954",
  "U+0955","U+0956","U+0957","U+0962","U+0963","U+0971","ঁ","়","ু","ূ","ৃ",
  "ৄ","্","ৢ","ৣ","৾","U+0A01","U+0A02","U+0A3C","U+0A41","U+0A42","U+0A47",
  "U+0A48","U+0A4B","U+0A4C","U+0A4D","U+0A51","U+0A70","U+0A71","U+0A75",
  "ઁ","ં","઼","ુ","ૂ","ૃ","ૄ","ૅ","ે","ૈ","્","ૢ","ૣ","ૺ","ૻ","ૼ","૽","૾",
  "૿","U+0B01","U+0B3C","U+0B3F","U+0B41","U+0B42","U+0B43","U+0B44",
  "U+0B4D","U+0B55","U+0B56","U+0B62","U+0B63","ஂ","ீ","்","U+0C00",
  "U+0C04","U+0C3C","U+0C3E","U+0C3F","U+0C40","U+0C46","U+0C47","U+0C48",
  "U+0C4A","U+0C4B","U+0C4C","U+0C4D","U+0C55","U+0C56","U+0C62","U+0C63",
  "ಁ","಼","ಿ","ೆ","ೌ","್","ೢ","ೣ","U+0D00","U+0D01","U+0D3B","U+0D3C",
  "U+0D41","U+0D42","U+0D43","U+0D44","U+0D4D","U+0D62","U+0D63","ඁ","්",
  "ි","ී","ු","ූ","U+0E31","U+0E34","U+0E35","U+0E36","U+0E37","U+0E38",
  "U+0E39","U+0E3A","U+0E46","U+0E47","U+0E48","U+0E49","U+0E4A","U+0E4B",
  "U+0E4C","U+0E4D","U+0E4E","ັ","ິ","ີ","ຶ","ື","ຸ","ູ","຺","ົ","ຼ","ໆ",
  "່","້","໊","໋","໌","ໍ","໎","U+0F18","U+0F19","U+0F35","U+0F37","U+0F39",
  "U+0F71","U+0F72","U+0F73","U+0F74","U+0F75","U+0F76","U+0F77","U+0F78",
  "U+0F79","U+0F7A","U+0F7B","U+0F7C","U+0F7D","U+0F7E","ྀ","ཱྀ","ྂ","ྃ","྄",
  "྆","྇","ྍ","ྎ","ྏ","ྐ","ྑ","ྒ","ྒྷ","ྔ","ྕ","ྖ","ྗ","ྙ","ྚ","ྛ","ྜ","ྜྷ",
  "ྞ","ྟ","ྠ","ྡ","ྡྷ","ྣ","ྤ","ྥ","ྦ","ྦྷ","ྨ","ྩ","ྪ","ྫ","ྫྷ","ྭ","ྮ","ྯ",
  "ྰ","ྱ","ྲ","ླ","ྴ","ྵ","ྶ","ྷ","ྸ","ྐྵ","ྺ","ྻ","ྼ","࿆","U+102D","U+102E",
  "U+102F","U+1030","U+1032","U+1033","U+1034","U+1035","U+1036","U+1037",
  "U+1039","U+103A","U+103D","U+103E","U+1058","U+1059","U+105E","U+105F",
  "U+1060","U+1071","U+1072","U+1073","U+1074","ႂ","ႅ","ႆ","ႍ","ႝ","ჼ",
  "U+135D","U+135E","U+135F","U+1712","U+1713","U+1714","U+1732","U+1733",
  "U+1752","U+1753","U+1772","U+1773","឴","឵","ិ","ី","ឹ","ឺ","ុ","ូ","ួ",
  "ំ","៉","៊","់","៌","៍","៎","៏","័","៑","្","៓","ៗ","៝","U+180B","U+180C",
  "U+180D","U+180E","U+180F","U+1843","ᢅ","ᢆ","ᢩ","U+1920","U+1921",
  "U+1922","U+1927","U+1928","U+1932","U+1939","U+193A","U+193B","U+1A17",
  "U+1A18","U+1A1B","U+1A56","U+1A58","U+1A59","U+1A5A","U+1A5B","U+1A5C",
  "U+1A5D","U+1A5E","U+1A60","U+1A62","U+1A65","U+1A66","U+1A67","U+1A68",
  "U+1A69","U+1A6A","U+1A6B","U+1A6C","U+1A73","U+1A74","U+1A75","U+1A76",
  "U+1A77","U+1A78","U+1A79","U+1A7A","U+1A7B","U+1A7C","U+1A7F","ᪧ","᪰",
  "᪱","᪲","᪳","᪴","᪵","᪶","᪷","᪸","᪹","᪺","᪻","᪼","᪽","᪾","ᪿ","ᫀ","᫁","᫂",
  "᫃","᫄","᫅","᫆","᫇","᫈","᫉","᫊","᫋","ᫌ","ᫍ","ᫎ","᫏","᫐","᫑","᫒","᫓","᫔",
  "᫕","᫖","᫗","᫘","᫙","᫚","᫛","᫜","᫝","᫠","᫡","᫢","᫣","᫤","᫥","᫦","᫧","᫨",
  "᫩","᫪","᫫","U+1B00","U+1B01","U+1B02","U+1B03","U+1B34","U+1B36",
  "U+1B37","U+1B38","U+1B39","U+1B3A","U+1B3C","U+1B42","U+1B6B","U+1B6C",
  "U+1B6D","U+1B6E","U+1B6F","U+1B70","U+1B71","U+1B72","U+1B73","ᮀ","ᮁ",
  "ᮢ","ᮣ","ᮤ","ᮥ","ᮨ","ᮩ","᮫","ᮬ","ᮭ","᯦","ᯨ","ᯩ","ᯭ","ᯯ","ᯰ","ᯱ","U+1C2C",
  "U+1C2D","U+1C2E","U+1C2F","U+1C30","U+1C31","U+1C32","U+1C33","U+1C36",
  "U+1C37","U+1C78","U+1C79","U+1C7A","U+1C7B","U+1C7C","U+1C7D","᳐","᳑",
  "᳒","᳔","᳕","᳖","᳗","᳘","᳙","᳚","᳛","᳜","᳝","᳞","᳟","᳠","᳢","᳣","᳤","᳥",
  "᳦","᳧","᳨","᳭","᳴","᳸","᳹","U+1D2C","U+1D2D","U+1D2E","U+1D2F","U+1D30",
  "U+1D31","U+1D32","U+1D33","U+1D34","U+1D35","U+1D36","U+1D37","U+1D38",
  "U+1D39","U+1D3A","U+1D3B","U+1D3C","U+1D3D","U+1D3E","U+1D3F","U+1D40",
  "U+1D41","U+1D42","U+1D43","U+1D44","U+1D45","U+1D46","U+1D47","U+1D48",
  "U+1D49","U+1D4A","U+1D4B","U+1D4C","U+1D4D","U+1D4E","U+1D4F","U+1D50",
  "U+1D51","U+1D52","U+1D53","U+1D54","U+1D55","U+1D56","U+1D57","U+1D58",
  "U+1D59","U+1D5A","U+1D5B","U+1D5C","U+1D5D","U+1D5E","U+1D5F","U+1D60",
  "U+1D61","U+1D62","U+1D63","U+1D64","U+1D65","U+1D66","U+1D67","U+1D68",
  "U+1D69","U+1D6A","U+1D78","ᶛ","ᶜ","ᶝ","ᶞ","ᶟ","ᶠ","ᶡ","ᶢ","ᶣ","ᶤ","ᶥ",
  "ᶦ","ᶧ","ᶨ","ᶩ","ᶪ","ᶫ","ᶬ","ᶭ","ᶮ","ᶯ","ᶰ","ᶱ","ᶲ","ᶳ","ᶴ","ᶵ","ᶶ","ᶷ",
  "ᶸ","ᶹ","ᶺ","ᶻ","ᶼ","ᶽ","ᶾ","ᶿ","᷀","᷁","᷂","᷃","᷄","᷅","᷆","᷇","᷈","᷉",
  "᷊","᷋","᷌","᷍","᷎","᷏","᷐","᷑","᷒","ᷓ","ᷔ","ᷕ","ᷖ","ᷗ","ᷘ","ᷙ","ᷚ","ᷛ",
  "ᷜ","ᷝ","ᷞ","ᷟ","ᷠ","ᷡ","ᷢ","ᷣ","ᷤ","ᷥ","ᷦ","ᷧ","ᷨ","ᷩ","ᷪ","ᷫ","ᷬ","ᷭ",
  "ᷮ","ᷯ","ᷰ","ᷱ","ᷲ","ᷳ","ᷴ","᷵","᷶","᷷","᷸","᷹","᷺","᷻","᷼","᷽","᷾","᷿",
  "᾽","᾿","῀","῁","῍","῎","῏","῝","῞","῟","῭","΅","`","´","῾","U+200B",
  "U+200C","U+200D","U+200E","U+200F","U+2018","U+2019","U+2024","U+2027",
  "U+202A","U+202B","U+202C","U+202D","U+202E","U+2060","U+2061","U+2062",
  "U+2063","U+2064","U+2066","U+2067","U+2068","U+2069","U+206A","U+206B",
  "U+206C","U+206D","U+206E","U+206F","U+2071","U+207F","ₐ","ₑ","ₒ","ₓ","ₔ",
  "ₕ","ₖ","ₗ","ₘ","ₙ","ₚ","ₛ","ₜ","⃐","⃑","⃒","⃓","⃔","⃕","⃖","⃗","⃘","⃙",
  "⃚","⃛","⃜","⃝","⃞","⃟","⃠","⃡","⃢","⃣","⃤","⃥","⃦","⃧","⃨","⃩","⃪","⃫",
  "⃬","⃭","⃮","⃯","⃰","U+2C7C","U+2C7D","⳯","⳰","⳱","U+2D6F","U+2D7F","ⷠ",
  "ⷡ","ⷢ","ⷣ","ⷤ","ⷥ","ⷦ","ⷧ","ⷨ","ⷩ","ⷪ","ⷫ","ⷬ","ⷭ","ⷮ","ⷯ","ⷰ","ⷱ","ⷲ",
  "ⷳ","ⷴ","ⷵ","ⷶ","ⷷ","ⷸ","ⷹ","ⷺ","ⷻ","ⷼ","ⷽ","ⷾ","ⷿ","U+2E2F","U+3005",
  "U+302A","U+302B","U+302C","U+302D","U+3031","U+3032","U+3033","U+3034",
  "U+3035","U+303B","゙","゚","゛","゜","ゝ","ゞ","ー","ヽ","ヾ","U+A015","ꓸ","ꓹ",
  "ꓺ","ꓻ","ꓼ","ꓽ","U+A60C","U+A66F","U+A670","U+A671","U+A672","U+A674",
  "U+A675","U+A676","U+A677","U+A678","U+A679","U+A67A","U+A67B","U+A67C",
  "U+A67D","U+A67F","ꚜ","ꚝ","ꚞ","ꚟ","꛰","꛱","U+A700","U+A701","U+A702",
  "U+A703","U+A704","U+A705","U+A706","U+A707","U+A708","U+A709","U+A70A",
  "U+A70B","U+A70C","U+A70D","U+A70E","U+A70F","U+A710","U+A711","U+A712",
  "U+A713","U+A714","U+A715","U+A716","U+A717","U+A718","U+A719","U+A71A",
  "U+A71B","U+A71C","U+A71D","U+A71E","U+A71F","U+A720","U+A721","U+A770",
  "ꞈ","꞉","꞊","꟱","ꟲ","ꟳ","ꟴ","ꟸ","ꟹ","U+A802","U+A806","U+A80B","U+A825",
  "U+A826","U+A82C","꣄","ꣅ","꣠","꣡","꣢","꣣","꣤","꣥","꣦","꣧","꣨","꣩","꣪","꣫",
  "꣬","꣭","꣮","꣯","꣰","꣱","ꣿ","U+A926","U+A927","U+A928","U+A929","U+A92A",
  "U+A92B","U+A92C","U+A92D","U+A947","U+A948","U+A949","U+A94A","U+A94B",
  "U+A94C","U+A94D","U+A94E","U+A94F","U+A950","U+A951","ꦀ","ꦁ","ꦂ","꦳","ꦶ",
  "ꦷ","ꦸ","ꦹ","ꦼ","ꦽ","ꧏ","ꧥ","ꧦ","U+AA29","U+AA2A","U+AA2B","U+AA2C",
  "U+AA2D","U+AA2E","U+AA31","U+AA32","U+AA35","U+AA36","U+AA43","U+AA4C",
  "U+AA70","U+AA7C","ꪰ","ꪲ","ꪳ","ꪴ","ꪷ","ꪸ","ꪾ","꪿","꫁","ꫝ","ꫬ","ꫭ","ꫳ","ꫴ",
  "꫶","U+AB5B","U+AB5C","U+AB5D","U+AB5E","U+AB5F","U+AB69","U+AB6A",
  "U+AB6B","ꯥ","ꯨ","꯭","U+FB1E","﮲","﮳","﮴","﮵","﮶","﮷","﮸","﮹","﮺","﮻","﮼",
  "﮽","﮾","﮿","﯀","﯁","﯂","U+FE00","U+FE01","U+FE02","U+FE03","U+FE04",
  "U+FE05","U+FE06","U+FE07","U+FE08","U+FE09","U+FE0A","U+FE0B","U+FE0C",
  "U+FE0D","U+FE0E","U+FE0F","U+FE13","U+FE20","U+FE21","U+FE22","U+FE23",
  "U+FE24","U+FE25","U+FE26","U+FE27","U+FE28","U+FE29","U+FE2A","U+FE2B",
  "U+FE2C","U+FE2D","U+FE2E","U+FE2F","U+FE52","U+FE55","﻿","U+FF07",
  "U+FF0E","U+FF1A","U+FF3E","U+FF40","U+FF70","ﾞ","ﾟ","￣","￹","￺","￻"}

CaseIgnorablePairs ==
  {<<"U+D800","U+DDFD">>,<<"U+D800","U+DEE0">>,<<"U+D800","U+DF76">>,
  <<"U+D800","U+DF77">>,<<"U+D800","U+DF78">>,<<"U+D800","U+DF79">>,
  <<"U+D800","U+DF7A">>,<<"U+D801","U+DF80">>,<<"U+D801","U+DF81">>,
  <<"U+D801","U+DF82">>,<<"U+D801","U+DF83">>,<<"U+D801","U+DF84">>,
  <<"U+D801","U+DF85">>,<<"U+D801","U+DF87">>,<<"U+D801","U+DF88">>,
  <<"U+D801","U+DF89">>,<<"U+D801","U+DF8A">>,<<"U+D801","U+DF8B">>,
  <<"U+D801","U+DF8C">>,<<"U+D801","U+DF8D">>,<<"U+D801","U+DF8E">>,
  <<"U+D801","U+DF8F">>,<<"U+D801","U+DF90">>,<<"U+D801","U+DF91">>,
  <<"U+D801","U+DF92">>,<<"U+D801","U+DF93">>,<<"U+D801","U+DF94">>,
  <<"U+D801","U+DF95">>,<<"U+D801","U+DF96">>,<<"U+D801","U+DF97">>,
  <<"U+D801","U+DF98">>,<<"U+D801","U+DF99">>,<<"U+D801","U+DF9A">>,
  <<"U+D801","U+DF9B">>,<<"U+D801","U+DF9C">>,<<"U+D801","U+DF9D">>,
  <<"U+D801","U+DF9E">>,<<"U+D801","U+DF9F">>,<<"U+D801","U+DFA0">>,
  <<"U+D801","U+DFA1">>,<<"U+D801","U+DFA2">>,<<"U+D801","U+DFA3">>,
  <<"U+D801","U+DFA4">>,<<"U+D801","U+DFA5">>,<<"U+D801","U+DFA6">>,
  <<"U+D801","U+DFA7">>,<<"U+D801","U+DFA8">>,<<"U+D801","U+DFA9">>,
  <<"U+D801","U+DFAA">>,<<"U+D801","U+DFAB">>,<<"U+D801","U+DFAC">>,
  <<"U+D801","U+DFAD">>,<<"U+D801","U+DFAE">>,<<"U+D801","U+DFAF">>,
  <<"U+D801","U+DFB0">>,<<"U+D801","U+DFB2">>,<<"U+D801","U+DFB3">>,
  <<"U+D801","U+DFB4">>,<<"U+D801","U+DFB5">>,<<"U+D801","U+DFB6">>,
  <<"U+D801","U+DFB7">>,<<"U+D801","U+DFB8">>,<<"U+D801","U+DFB9">>,
  <<"U+D801","U+DFBA">>,<<"U+D802","U+DE01">>,<<"U+D802","U+DE02">>,
  <<"U+D802","U+DE03">>,<<"U+D802","U+DE05">>,<<"U+D802","U+DE06">>,
  <<"U+D802","U+DE0C">>,<<"U+D802","U+DE0D">>,<<"U+D802","U+DE0E">>,
  <<"U+D802","U+DE0F">>,<<"U+D802","U+DE38">>,<<"U+D802","U+DE39">>,
  <<"U+D802","U+DE3A">>,<<"U+D802","U+DE3F">>,<<"U+D802","U+DEE5">>,
  <<"U+D802","U+DEE6">>,<<"U+D803","U+DD24">>,<<"U+D803","U+DD25">>,
  <<"U+D803","U+DD26">>,<<"U+D803","U+DD27">>,<<"U+D803","U+DD4E">>,
  <<"U+D803","U+DD69">>,<<"U+D803","U+DD6A">>,<<"U+D803","U+DD6B">>,
  <<"U+D803","U+DD6C">>,<<"U+D803","U+DD6D">>,<<"U+D803","U+DD6F">>,
  <<"U+D803","U+DEAB">>,<<"U+D803","U+DEAC">>,<<"U+D803","U+DEC5">>,
  <<"U+D803","U+DEFA">>,<<"U+D803","U+DEFB">>,<<"U+D803","U+DEFC">>,
  <<"U+D803","U+DEFD">>,<<"U+D803","U+DEFE">>,<<"U+D803","U+DEFF">>,
  <<"U+D803","U+DF46">>,<<"U+D803","U+DF47">>,<<"U+D803","U+DF48">>,
  <<"U+D803","U+DF49">>,<<"U+D803","U+DF4A">>,<<"U+D803","U+DF4B">>,
  <<"U+D803","U+DF4C">>,<<"U+D803","U+DF4D">>,<<"U+D803","U+DF4E">>,
  <<"U+D803","U+DF4F">>,<<"U+D803","U+DF50">>,<<"U+D803","U+DF82">>,
  <<"U+D803","U+DF83">>,<<"U+D803","U+DF84">>,<<"U+D803","U+DF85">>,
  <<"U+D804","U+DC01">>,<<"U+D804","U+DC38">>,<<"U+D804","U+DC39">>,
  <<"U+D804","U+DC3A">>,<<"U+D804","U+DC3B">>,<<"U+D804","U+DC3C">>,
  <<"U+D804","U+DC3D">>,<<"U+D804","U+DC3E">>,<<"U+D804","U+DC3F">>,
  <<"U+D804","U+DC40">>,<<"U+D804","U+DC41">>,<<"U+D804","U+DC42">>,
  <<"U+D804","U+DC43">>,<<"U+D804","U+DC44">>,<<"U+D804","U+DC45">>,
  <<"U+D804","U+DC46">>,<<"U+D804","U+DC70">>,<<"U+D804","U+DC73">>,
  <<"U+D804","U+DC74">>,<<"U+D804","U+DC7F">>,<<"U+D804","U+DC80">>,
  <<"U+D804","U+DC81">>,<<"U+D804","U+DCB3">>,<<"U+D804","U+DCB4">>,
  <<"U+D804","U+DCB5">>,<<"U+D804","U+DCB6">>,<<"U+D804","U+DCB9">>,
  <<"U+D804","U+DCBA">>,<<"U+D804","U+DCBD">>,<<"U+D804","U+DCC2">>,
  <<"U+D804","U+DCCD">>,<<"U+D804","U+DD00">>,<<"U+D804","U+DD01">>,
  <<"U+D804","U+DD02">>,<<"U+D804","U+DD27">>,<<"U+D804","U+DD28">>,
  <<"U+D804","U+DD29">>,<<"U+D804","U+DD2A">>,<<"U+D804","U+DD2B">>,
  <<"U+D804","U+DD2D">>,<<"U+D804","U+DD2E">>,<<"U+D804","U+DD2F">>,
  <<"U+D804","U+DD30">>,<<"U+D804","U+DD31">>,<<"U+D804","U+DD32">>,
  <<"U+D804","U+DD33">>,<<"U+D804","U+DD34">>,<<"U+D804","U+DD73">>,
  <<"U+D804","U+DD80">>,<<"U+D804","U+DD81">>,<<"U+D804","U+DDB6">>,
  <<"U+D804","U+DDB7">>,<<"U+D804","U+DDB8">>,<<"U+D804","U+DDB9">>,
  <<"U+D804","U+DDBA">>,<<"U+D804","U+DDBB">>,<<"U+D804","U+DDBC">>,
  <<"U+D804","U+DDBD">>,<<"U+D804","U+DDBE">>,<<"U+D804","U+DDC9">>,
  <<"U+D804","U+DDCA">>,<<"U+D804","U+DDCB">>,<<"U+D804","U+DDCC">>,
  <<"U+D804","U+DDCF">>,<<"U+D804","U+DE2F">>,<<"U+D804","U+DE30">>,
  <<"U+D804","U+DE31">>,<<"U+D804","U+DE34">>,<<"U+D804","U+DE36">>,
  <<"U+D804","U+DE37">>,<<"U+D804","U+DE3E">>,<<"U+D804","U+DE41">>,
  <<"U+D804","U+DEDF">>,<<"U+D804","U+DEE3">>,<<"U+D804","U+DEE4">>,
  <<"U+D804","U+DEE5">>,<<"U+D804","U+DEE6">>,<<"U+D804","U+DEE7">>,
  <<"U+D804","U+DEE8">>,<<"U+D804","U+DEE9">>,<<"U+D804","U+DEEA">>,
  <<"U+D804","U+DF00">>,<<"U+D804","U+DF01">>,<<"U+D804","U+DF3B">>,
  <<"U+D804","U+DF3C">>,<<"U+D804","U+DF40">>,<<"U+D804","U+DF66">>,
  <<"U+D804","U+DF67">>,<<"U+D804","U+DF68">>,<<"U+D804","U+DF69">>,
  <<"U+D804","U+DF6A">>,<<"U+D804","U+DF6B">>,<<"U+D804","U+DF6C">>,
  <<"U+D804","U+DF70">>,<<"U+D804","U+DF71">>,<<"U+D804","U+DF72">>,
  <<"U+D804","U+DF73">>,<<"U+D804","U+DF74">>,<<"U+D804","U+DFBB">>,
  <<"U+D804","U+DFBC">>,<<"U+D804","U+DFBD">>,<<"U+D804","U+DFBE">>,
  <<"U+D804","U+DFBF">>,<<"U+D804","U+DFC0">>,<<"U+D804","U+DFCE">>,
  <<"U+D804","U+DFD0">>,<<"U+D804","U+DFD2">>,<<"U+D804","U+DFE1">>,
  <<"U+D804","U+DFE2">>,<<"U+D805","U+DC38">>,<<"U+D805","U+DC39">>,
  <<"U+D805","U+DC3A">>,<<"U+D805","U+DC3B">>,<<"U+D805","U+DC3C">>,
  <<"U+D805","U+DC3D">>,<<"U+D805","U+DC3E">>,<<"U+D805","U+DC3F">>,
  <<"U+D805","U+DC42">>,<<"U+D805","U+DC43">>,<<"U+D805","U+DC44">>,
  <<"U+D805","U+DC46">>,<<"U+D805","U+DC5E">>,<<"U+D805","U+DCB3">>,
  <<"U+D805","U+DCB4">>,<<"U+D805","U+DCB5">>,<<"U+D805","U+DCB6">>,
  <<"U+D805","U+DCB7">>,<<"U+D805","U+DCB8">>,<<"U+D805","U+DCBA">>,
  <<"U+D805","U+DCBF">>,<<"U+D805","U+DCC0">>,<<"U+D805","U+DCC2">>,
  <<"U+D805","U+DCC3">>,<<"U+D805","U+DDB2">>,<<"U+D805","U+DDB3">>,
  <<"U+D805","U+DDB4">>,<<"U+D805","U+DDB5">>,<<"U+D805","U+DDBC">>,
  <<"U+D805","U+DDBD">>,<<"U+D805","U+DDBF">>,<<"U+D805","U+DDC0">>,
  <<"U+D805","U+DDDC">>,<<"U+D805","U+DDDD">>,<<"U+D805","U+DE33">>,
  <<"U+D805","U+DE34">>,<<"U+D805","U+DE35">>,<<"U+D805","U+DE36">>,
  <<"U+D805","U+DE37">>,<<"U+D805","U+DE38">>,<<"U+D805","U+DE39">>,
  <<"U+D805","U+DE3A">>,<<"U+D805","U+DE3D">>,<<"U+D805","U+DE3F">>,
  <<"U+D805","U+DE40">>,<<"U+D805","U+DEAB">>,<<"U+D805","U+DEAD">>,
  <<"U+D805","U+DEB0">>,<<"U+D805","U+DEB1">>,<<"U+D805","U+DEB2">>,
  <<"U+D805","U+DEB3">>,<<"U+D805","U+DEB4">>,<<"U+D805","U+DEB5">>,
  <<"U+D805","U+DEB7">>,<<"U+D805","U+DF1D">>,<<"U+D805","U+DF1F">>,
  <<"U+D805","U+DF22">>,<<"U+D805","U+DF23">>,<<"U+D805","U+DF24">>,
  <<"U+D805","U+DF25">>,<<"U+D805","U+DF27">>,<<"U+D805","U+DF28">>,
  <<"U+D805","U+DF29">>,<<"U+D805","U+DF2A">>,<<"U+D805","U+DF2B">>,
  <<"U+D806","U+DC2F">>,<<"U+D806","U+DC30">>,<<"U+D806","U+DC31">>,
  <<"U+D806","U+DC32">>,<<"U+D806","U+DC33">>,<<"U+D806","U+DC34">>,
  <<"U+D806","U+DC35">>,<<"U+D806","U+DC36">>,<<"U+D806","U+DC37">>,
  <<"U+D806","U+DC39">>,<<"U+D806","U+DC3A">>,<<"U+D806","U+DD3B">>,
  <<"U+D806","U+DD3C">>,<<"U+D806","U+DD3E">>,<<"U+D806","U+DD43">>,
  <<"U+D806","U+DDD4">>,<<"U+D806","U+DDD5">>,<<"U+D806","U+DDD6">>,
  <<"U+D806","U+DDD7">>,<<"U+D806","U+DDDA">>,<<"U+D806","U+DDDB">>,
  <<"U+D806","U+DDE0">>,<<"U+D806","U+DE01">>,<<"U+D806","U+DE02">>,
  <<"U+D806","U+DE03">>,<<"U+D806","U+DE04">>,<<"U+D806","U+DE05">>,
  <<"U+D806","U+DE06">>,<<"U+D806","U+DE07">>,<<"U+D806","U+DE08">>,
  <<"U+D806","U+DE09">>,<<"U+D806","U+DE0A">>,<<"U+D806","U+DE33">>,
  <<"U+D806","U+DE34">>,<<"U+D806","U+DE35">>,<<"U+D806","U+DE36">>,
  <<"U+D806","U+DE37">>,<<"U+D806","U+DE38">>,<<"U+D806","U+DE3B">>,
  <<"U+D806","U+DE3C">>,<<"U+D806","U+DE3D">>,<<"U+D806","U+DE3E">>,
  <<"U+D806","U+DE47">>,<<"U+D806","U+DE51">>,<<"U+D806","U+DE52">>,
  <<"U+D806","U+DE53">>,<<"U+D806","U+DE54">>,<<"U+D806","U+DE55">>,
  <<"U+D806","U+DE56">>,<<"U+D806","U+DE59">>,<<"U+D806","U+DE5A">>,
  <<"U+D806","U+DE5B">>,<<"U+D806","U+DE8A">>,<<"U+D806","U+DE8B">>,
  <<"U+D806","U+DE8C">>,<<"U+D806","U+DE8D">>,<<"U+D806","U+DE8E">>,
  <<"U+D806","U+DE8F">>,<<"U+D806","U+DE90">>,<<"U+D806","U+DE91">>,
  <<"U+D806","U+DE92">>,<<"U+D806","U+DE93">>,<<"U+D806","U+DE94">>,
  <<"U+D806","U+DE95">>,<<"U+D806","U+DE96">>,<<"U+D806","U+DE98">>,
  <<"U+D806","U+DE99">>,<<"U+D806","U+DF60">>,<<"U+D806","U+DF62">>,
  <<"U+D806","U+DF63">>,<<"U+D806","U+DF64">>,<<"U+D806","U+DF66">>,
  <<"U+D807","U+DC30">>,<<"U+D807","U+DC31">>,<<"U+D807","U+DC32">>,
  <<"U+D807","U+DC33">>,<<"U+D807","U+DC34">>,<<"U+D807","U+DC35">>,
  <<"U+D807","U+DC36">>,<<"U+D807","U+DC38">>,<<"U+D807","U+DC39">>,
  <<"U+D807","U+DC3A">>,<<"U+D807","U+DC3B">>,<<"U+D807","U+DC3C">>,
  <<"U+D807","U+DC3D">>,<<"U+D807","U+DC3F">>,<<"U+D807","U+DC92">>,
  <<"U+D807","U+DC93">>,<<"U+D807","U+DC94">>,<<"U+D807","U+DC95">>,
  <<"U+D807","U+DC96">>,<<"U+D807","U+DC97">>,<<"U+D807","U+DC98">>,
  <<"U+D807","U+DC99">>,<<"U+D807","U+DC9A">>,<<"U+D807","U+DC9B">>,
  <<"U+D807","U+DC9C">>,<<"U+D807","U+DC9D">>,<<"U+D807","U+DC9E">>,
  <<"U+D807","U+DC9F">>,<<"U+D807","U+DCA0">>,<<"U+D807","U+DCA1">>,
  <<"U+D807","U+DCA2">>,<<"U+D807","U+DCA3">>,<<"U+D807","U+DCA4">>,
  <<"U+D807","U+DCA5">>,<<"U+D807","U+DCA6">>,<<"U+D807","U+DCA7">>,
  <<"U+D807","U+DCAA">>,<<"U+D807","U+DCAB">>,<<"U+D807","U+DCAC">>,
  <<"U+D807","U+DCAD">>,<<"U+D807","U+DCAE">>,<<"U+D807","U+DCAF">>,
  <<"U+D807","U+DCB0">>,<<"U+D807","U+DCB2">>,<<"U+D807","U+DCB3">>,
  <<"U+D807","U+DCB5">>,<<"U+D807","U+DCB6">>,<<"U+D807","U+DD31">>,
  <<"U+D807","U+DD32">>,<<"U+D807","U+DD33">>,<<"U+D807","U+DD34">>,
  <<"U+D807","U+DD35">>,<<"U+D807","U+DD36">>,<<"U+D807","U+DD3A">>,
  <<"U+D807","U+DD3C">>,<<"U+D807","U+DD3D">>,<<"U+D807","U+DD3F">>,
  <<"U+D807","U+DD40">>,<<"U+D807","U+DD41">>,<<"U+D807","U+DD42">>,
  <<"U+D807","U+DD43">>,<<"U+D807","U+DD44">>,<<"U+D807","U+DD45">>,
  <<"U+D807","U+DD47">>,<<"U+D807","U+DD90">>,<<"U+D807","U+DD91">>,
  <<"U+D807","U+DD95">>,<<"U+D807","U+DD97">>,<<"U+D807","U+DDD9">>,
  <<"U+D807","U+DEF3">>,<<"U+D807","U+DEF4">>,<<"U+D807","U+DF00">>,
  <<"U+D807","U+DF01">>,<<"U+D807","U+DF36">>,<<"U+D807","U+DF37">>,
  <<"U+D807","U+DF38">>,<<"U+D807","U+DF39">>,<<"U+D807","U+DF3A">>,
  <<"U+D807","U+DF40">>,<<"U+D807","U+DF42">>,<<"U+D807","U+DF5A">>,
  <<"U+D80D","U+DC30">>,<<"U+D80D","U+DC31">>,<<"U+D80D","U+DC32">>,
  <<"U+D80D","U+DC33">>,<<"U+D80D","U+DC34">>,<<"U+D80D","U+DC35">>,
  <<"U+D80D","U+DC36">>,<<"U+D80D","U+DC37">>,<<"U+D80D","U+DC38">>,
  <<"U+D80D","U+DC39">>,<<"U+D80D","U+DC3A">>,<<"U+D80D","U+DC3B">>,
  <<"U+D80D","U+DC3C">>,<<"U+D80D","U+DC3D">>,<<"U+D80D","U+DC3E">>,
  <<"U+D80D","U+DC3F">>,<<"U+D80D","U+DC40">>,<<"U+D80D","U+DC47">>,
  <<"U+D80D","U+DC48">>,<<"U+D80D","U+DC49">>,<<"U+D80D","U+DC4A">>,
  <<"U+D80D","U+DC4B">>,<<"U+D80D","U+DC4C">>,<<"U+D80D","U+DC4D">>,
  <<"U+D80D","U+DC4E">>,<<"U+D80D","U+DC4F">>,<<"U+D80D","U+DC50">>,
  <<"U+D80D","U+DC51">>,<<"U+D80D","U+DC52">>,<<"U+D80D","U+DC53">>,
  <<"U+D80D","U+DC54">>,<<"U+D80D","U+DC55">>,<<"U+D818","U+DD1E">>,
  <<"U+D818","U+DD1F">>,<<"U+D818","U+DD20">>,<<"U+D818","U+DD21">>,
  <<"U+D818","U+DD22">>,<<"U+D818","U+DD23">>,<<"U+D818","U+DD24">>,
  <<"U+D818","U+DD25">>,<<"U+D818","U+DD26">>,<<"U+D818","U+DD27">>,
  <<"U+D818","U+DD28">>,<<"U+D818","U+DD29">>,<<"U+D818","U+DD2D">>,
  <<"U+D818","U+DD2E">>,<<"U+D818","U+DD2F">>,<<"U+D81A","U+DEF0">>,
  <<"U+D81A","U+DEF1">>,<<"U+D81A","U+DEF2">>,<<"U+D81A","U+DEF3">>,
  <<"U+D81A","U+DEF4">>,<<"U+D81A","U+DF30">>,<<"U+D81A","U+DF31">>,
  <<"U+D81A","U+DF32">>,<<"U+D81A","U+DF33">>,<<"U+D81A","U+DF34">>,
  <<"U+D81A","U+DF35">>,<<"U+D81A","U+DF36">>,<<"U+D81A","U+DF40">>,
  <<"U+D81A","U+DF41">>,<<"U+D81A","U+DF42">>,<<"U+D81A","U+DF43">>,
  <<"U+D81B","U+DD40">>,<<"U+D81B","U+DD41">>,<<"U+D81B","U+DD42">>,
  <<"U+D81B","U+DD6B">>,<<"U+D81B","U+DD6C">>,<<"U+D81B","U+DF4F">>,
  <<"U+D81B","U+DF8F">>,<<"U+D81B","U+DF90">>,<<"U+D81B","U+DF91">>,
  <<"U+D81B","U+DF92">>,<<"U+D81B","U+DF93">>,<<"U+D81B","U+DF94">>,
  <<"U+D81B","U+DF95">>,<<"U+D81B","U+DF96">>,<<"U+D81B","U+DF97">>,
  <<"U+D81B","U+DF98">>,<<"U+D81B","U+DF99">>,<<"U+D81B","U+DF9A">>,
  <<"U+D81B","U+DF9B">>,<<"U+D81B","U+DF9C">>,<<"U+D81B","U+DF9D">>,
  <<"U+D81B","U+DF9E">>,<<"U+D81B","U+DF9F">>,<<"U+D81B","U+DFE0">>,
  <<"U+D81B","U+DFE1">>,<<"U+D81B","U+DFE3">>,<<"U+D81B","U+DFE4">>,
  <<"U+D81B","U+DFF2">>,<<"U+D81B","U+DFF3">>,<<"U+D82B","U+DFF0">>,
  <<"U+D82B","U+DFF1">>,<<"U+D82B","U+DFF2">>,<<"U+D82B","U+DFF3">>,
  <<"U+D82B","U+DFF5">>,<<"U+D82B","U+DFF6">>,<<"U+D82B","U+DFF7">>,
  <<"U+D82B","U+DFF8">>,<<"U+D82B","U+DFF9">>,<<"U+D82B","U+DFFA">>,
  <<"U+D82B","U+DFFB">>,<<"U+D82B","U+DFFD">>,<<"U+D82B","U+DFFE">>,
  <<"U+D82F","U+DC9D">>,<<"U+D82F","U+DC9E">>,<<"U+D82F","U+DCA0">>,
  <<"U+D82F","U+DCA1">>,<<"U+D82F","U+DCA2">>,<<"U+D82F","U+DCA3">>,
  <<"U+D833","U+DF00">>,<<"U+D833","U+DF01">>,<<"U+D833","U+DF02">>,
  <<"U+D833","U+DF03">>,<<"U+D833","U+DF04">>,<<"U+D833","U+DF05">>,
  <<"U+D833","U+DF06">>,<<"U+D833","U+DF07">>,<<"U+D833","U+DF08">>,
  <<"U+D833","U+DF09">>,<<"U+D833","U+DF0A">>,<<"U+D833","U+DF0B">>,
  <<"U+D833","U+DF0C">>,<<"U+D833","U+DF0D">>,<<"U+D833","U+DF0E">>,
  <<"U+D833","U+DF0F">>,<<"U+D833","U+DF10">>,<<"U+D833","U+DF11">>,
  <<"U+D833","U+DF12">>,<<"U+D833","U+DF13">>,<<"U+D833","U+DF14">>,
  <<"U+D833","U+DF15">>,<<"U+D833","U+DF16">>,<<"U+D833","U+DF17">>,
  <<"U+D833","U+DF18">>,<<"U+D833","U+DF19">>,<<"U+D833","U+DF1A">>,
  <<"U+D833","U+DF1B">>,<<"U+D833","U+DF1C">>,<<"U+D833","U+DF1D">>,
  <<"U+D833","U+DF1E">>,<<"U+D833","U+DF1F">>,<<"U+D833","U+DF20">>,
  <<"U+D833","U+DF21">>,<<"U+D833","U+DF22">>,<<"U+D833","U+DF23">>,
  <<"U+D833","U+DF24">>,<<"U+D833","U+DF25">>,<<"U+D833","U+DF26">>,
  <<"U+D833","U+DF27">>,<<"U+D833","U+DF28">>,<<"U+D833","U+DF29">>,
  <<"U+D833","U+DF2A">>,<<"U+D833","U+DF2B">>,<<"U+D833","U+DF2C">>,
  <<"U+D833","U+DF2D">>,<<"U+D833","U+DF30">>,<<"U+D833","U+DF31">>,
  <<"U+D833","U+DF32">>,<<"U+D833","U+DF33">>,<<"U+D833","U+DF34">>,
  <<"U+D833","U+DF35">>,<<"U+D833","U+DF36">>,<<"U+D833","U+DF37">>,
  <<"U+D833","U+DF38">>,<<"U+D833","U+DF39">>,<<"U+D833","U+DF3A">>,
  <<"U+D833","U+DF3B">>,<<"U+D833","U+DF3C">>,<<"U+D833","U+DF3D">>,
  <<"U+D833","U+DF3E">>,<<"U+D833","U+DF3F">>,<<"U+D833","U+DF40">>,
  <<"U+D833","U+DF41">>,<<"U+D833","U+DF42">>,<<"U+D833","U+DF43">>,
  <<"U+D833","U+DF44">>,<<"U+D833","U+DF45">>,<<"U+D833","U+DF46">>,
  <<"U+D834","U+DD67">>,<<"U+D834","U+DD68">>,<<"U+D834","U+DD69">>,
  <<"U+D834","U+DD73">>,<<"U+D834","U+DD74">>,<<"U+D834","U+DD75">>,
  <<"U+D834","U+DD76">>,<<"U+D834","U+DD77">>,<<"U+D834","U+DD78">>,
  <<"U+D834","U+DD79">>,<<"U+D834","U+DD7A">>,<<"U+D834","U+DD7B">>,
  <<"U+D834","U+DD7C">>,<<"U+D834","U+DD7D">>,<<"U+D834","U+DD7E">>,
  <<"U+D834","U+DD7F">>,<<"U+D834","U+DD80">>,<<"U+D834","U+DD81">>,
  <<"U+D834","U+DD82">>,<<"U+D834","U+DD85">>,<<"U+D834","U+DD86">>,
  <<"U+D834","U+DD87">>,<<"U+D834","U+DD88">>,<<"U+D834","U+DD89">>,
  <<"U+D834","U+DD8A">>,<<"U+D834","U+DD8B">>,<<"U+D834","U+DDAA">>,
  <<"U+D834","U+DDAB">>,<<"U+D834","U+DDAC">>,<<"U+D834","U+DDAD">>,
  <<"U+D834","U+DE42">>,<<"U+D834","U+DE43">>,<<"U+D834","U+DE44">>,
  <<"U+D836","U+DE00">>,<<"U+D836","U+DE01">>,<<"U+D836","U+DE02">>,
  <<"U+D836","U+DE03">>,<<"U+D836","U+DE04">>,<<"U+D836","U+DE05">>,
  <<"U+D836","U+DE06">>,<<"U+D836","U+DE07">>,<<"U+D836","U+DE08">>,
  <<"U+D836","U+DE09">>,<<"U+D836","U+DE0A">>,<<"U+D836","U+DE0B">>,
  <<"U+D836","U+DE0C">>,<<"U+D836","U+DE0D">>,<<"U+D836","U+DE0E">>,
  <<"U+D836","U+DE0F">>,<<"U+D836","U+DE10">>,<<"U+D836","U+DE11">>,
  <<"U+D836","U+DE12">>,<<"U+D836","U+DE13">>,<<"U+D836","U+DE14">>,
  <<"U+D836","U+DE15">>,<<"U+D836","U+DE16">>,<<"U+D836","U+DE17">>,
  <<"U+D836","U+DE18">>,<<"U+D836","U+DE19">>,<<"U+D836","U+DE1A">>,
  <<"U+D836","U+DE1B">>,<<"U+D836","U+DE1C">>,<<"U+D836","U+DE1D">>,
  <<"U+D836","U+DE1E">>,<<"U+D836","U+DE1F">>,<<"U+D836","U+DE20">>,
  <<"U+D836","U+DE21">>,<<"U+D836","U+DE22">>,<<"U+D836","U+DE23">>,
  <<"U+D836","U+DE24">>,<<"U+D836","U+DE25">>,<<"U+D836","U+DE26">>,
  <<"U+D836","U+DE27">>,<<"U+D836","U+DE28">>,<<"U+D836","U+DE29">>,
  <<"U+D836","U+DE2A">>,<<"U+D836","U+DE2B">>,<<"U+D836","U+DE2C">>,
  <<"U+D836","U+DE2D">>,<<"U+D836","U+DE2E">>,<<"U+D836","U+DE2F">>,
  <<"U+D836","U+DE30">>,<<"U+D836","U+DE31">>,<<"U+D836","U+DE32">>,
  <<"U+D836","U+DE33">>,<<"U+D836","U+DE34">>,<<"U+D836","U+DE35">>,
  <<"U+D836","U+DE36">>,<<"U+D836","U+DE3B">>,<<"U+D836","U+DE3C">>,
  <<"U+D836","U+DE3D">>,<<"U+D836","U+DE3E">>,<<"U+D836","U+DE3F">>,
  <<"U+D836","U+DE40">>,<<"U+D836","U+DE41">>,<<"U+D836","U+DE42">>,
  <<"U+D836","U+DE43">>,<<"U+D836","U+DE44">>,<<"U+D836","U+DE45">>,
  <<"U+D836","U+DE46">>,<<"U+D836","U+DE47">>,<<"U+D836","U+DE48">>,
  <<"U+D836","U+DE49">>,<<"U+D836","U+DE4A">>,<<"U+D836","U+DE4B">>,
  <<"U+D836","U+DE4C">>,<<"U+D836","U+DE4D">>,<<"U+D836","U+DE4E">>,
  <<"U+D836","U+DE4F">>,<<"U+D836","U+DE50">>,<<"U+D836","U+DE51">>,
  <<"U+D836","U+DE52">>,<<"U+D836","U+DE53">>,<<"U+D836","U+DE54">>,
  <<"U+D836","U+DE55">>,<<"U+D836","U+DE56">>,<<"U+D836","U+DE57">>,
  <<"U+D836","U+DE58">>,<<"U+D836","U+DE59">>,<<"U+D836","U+DE5A">>,
  <<"U+D836","U+DE5B">>,<<"U+D836","U+DE5C">>,<<"U+D836","U+DE5D">>,
  <<"U+D836","U+DE5E">>,<<"U+D836","U+DE5F">>,<<"U+D836","U+DE60">>,
  <<"U+D836","U+DE61">>,<<"U+D836","U+DE62">>,<<"U+D836","U+DE63">>,
  <<"U+D836","U+DE64">>,<<"U+D836","U+DE65">>,<<"U+D836","U+DE66">>,
  <<"U+D836","U+DE67">>,<<"U+D836","U+DE68">>,<<"U+D836","U+DE69">>,
  <<"U+D836","U+DE6A">>,<<"U+D836","U+DE6B">>,<<"U+D836","U+DE6C">>,
  <<"U+D836","U+DE75">>,<<"U+D836","U+DE84">>,<<"U+D836","U+DE9B">>,
  <<"U+D836","U+DE9C">>,<<"U+D836","U+DE9D">>,<<"U+D836","U+DE9E">>,
  <<"U+D836","U+DE9F">>,<<"U+D836","U+DEA1">>,<<"U+D836","U+DEA2">>,
  <<"U+D836","U+DEA3">>,<<"U+D836","U+DEA4">>,<<"U+D836","U+DEA5">>,
  <<"U+D836","U+DEA6">>,<<"U+D836","U+DEA7">>,<<"U+D836","U+DEA8">>,
  <<"U+D836","U+DEA9">>,<<"U+D836","U+DEAA">>,<<"U+D836","U+DEAB">>,
  <<"U+D836","U+DEAC">>,<<"U+D836","U+DEAD">>,<<"U+D836","U+DEAE">>,
  <<"U+D836","U+DEAF">>,<<"U+D838","U+DC00">>,<<"U+D838","U+DC01">>,
  <<"U+D838","U+DC02">>,<<"U+D838","U+DC03">>,<<"U+D838","U+DC04">>,
  <<"U+D838","U+DC05">>,<<"U+D838","U+DC06">>,<<"U+D838","U+DC08">>,
  <<"U+D838","U+DC09">>,<<"U+D838","U+DC0A">>,<<"U+D838","U+DC0B">>,
  <<"U+D838","U+DC0C">>,<<"U+D838","U+DC0D">>,<<"U+D838","U+DC0E">>,
  <<"U+D838","U+DC0F">>,<<"U+D838","U+DC10">>,<<"U+D838","U+DC11">>,
  <<"U+D838","U+DC12">>,<<"U+D838","U+DC13">>,<<"U+D838","U+DC14">>,
  <<"U+D838","U+DC15">>,<<"U+D838","U+DC16">>,<<"U+D838","U+DC17">>,
  <<"U+D838","U+DC18">>,<<"U+D838","U+DC1B">>,<<"U+D838","U+DC1C">>,
  <<"U+D838","U+DC1D">>,<<"U+D838","U+DC1E">>,<<"U+D838","U+DC1F">>,
  <<"U+D838","U+DC20">>,<<"U+D838","U+DC21">>,<<"U+D838","U+DC23">>,
  <<"U+D838","U+DC24">>,<<"U+D838","U+DC26">>,<<"U+D838","U+DC27">>,
  <<"U+D838","U+DC28">>,<<"U+D838","U+DC29">>,<<"U+D838","U+DC2A">>,
  <<"U+D838","U+DC30">>,<<"U+D838","U+DC31">>,<<"U+D838","U+DC32">>,
  <<"U+D838","U+DC33">>,<<"U+D838","U+DC34">>,<<"U+D838","U+DC35">>,
  <<"U+D838","U+DC36">>,<<"U+D838","U+DC37">>,<<"U+D838","U+DC38">>,
  <<"U+D838","U+DC39">>,<<"U+D838","U+DC3A">>,<<"U+D838","U+DC3B">>,
  <<"U+D838","U+DC3C">>,<<"U+D838","U+DC3D">>,<<"U+D838","U+DC3E">>,
  <<"U+D838","U+DC3F">>,<<"U+D838","U+DC40">>,<<"U+D838","U+DC41">>,
  <<"U+D838","U+DC42">>,<<"U+D838","U+DC43">>,<<"U+D838","U+DC44">>,
  <<"U+D838","U+DC45">>,<<"U+D838","U+DC46">>,<<"U+D838","U+DC47">>,
  <<"U+D838","U+DC48">>,<<"U+D838","U+DC49">>,<<"U+D838","U+DC4A">>,
  <<"U+D838","U+DC4B">>,<<"U+D838","U+DC4C">>,<<"U+D838","U+DC4D">>,
  <<"U+D838","U+DC4E">>,<<"U+D838","U+DC4F">>,<<"U+D838","U+DC50">>,
  <<"U+D838","U+DC51">>,<<"U+D838","U+DC52">>,<<"U+D838","U+DC53">>,
  <<"U+D838","U+DC54">>,<<"U+D838","U+DC55">>,<<"U+D838","U+DC56">>,
  <<"U+D838","U+DC57">>,<<"U+D838","U+DC58">>,<<"U+D838","U+DC59">>,
  <<"U+D838","U+DC5A">>,<<"U+D838","U+DC5B">>,<<"U+D838","U+DC5C">>,
  <<"U+D838","U+DC5D">>,<<"U+D838","U+DC5E">>,<<"U+D838","U+DC5F">>,
  <<"U+D838","U+DC60">>,<<"U+D838","U+DC61">>,<<"U+D838","U+DC62">>,
  <<"U+D838","U+DC63">>,<<"U+D838","U+DC64">>,<<"U+D838","U+DC65">>,
  <<"U+D838","U+DC66">>,<<"U+D838","U+DC67">>,<<"U+D838","U+DC68">>,
  <<"U+D838","U+DC69">>,<<"U+D838","U+DC6A">>,<<"U+D838","U+DC6B">>,
  <<"U+D838","U+DC6C">>,<<"U+D838","U+DC6D">>,<<"U+D838","U+DC8F">>,
  <<"U+D838","U+DD30">>,<<"U+D838","U+DD31">>,<<"U+D838","U+DD32">>,
  <<"U+D838","U+DD33">>,<<"U+D838","U+DD34">>,<<"U+D838","U+DD35">>,
  <<"U+D838","U+DD36">>,<<"U+D838","U+DD37">>,<<"U+D838","U+DD38">>,
  <<"U+D838","U+DD39">>,<<"U+D838","U+DD3A">>,<<"U+D838","U+DD3B">>,
  <<"U+D838","U+DD3C">>,<<"U+D838","U+DD3D">>,<<"U+D838","U+DEAE">>,
  <<"U+D838","U+DEEC">>,<<"U+D838","U+DEED">>,<<"U+D838","U+DEEE">>,
  <<"U+D838","U+DEEF">>,<<"U+D839","U+DCEB">>,<<"U+D839","U+DCEC">>,
  <<"U+D839","U+DCED">>,<<"U+D839","U+DCEE">>,<<"U+D839","U+DCEF">>,
  <<"U+D839","U+DDEE">>,<<"U+D839","U+DDEF">>,<<"U+D839","U+DEE3">>,
  <<"U+D839","U+DEE6">>,<<"U+D839","U+DEEE">>,<<"U+D839","U+DEEF">>,
  <<"U+D839","U+DEF5">>,<<"U+D839","U+DEFF">>,<<"U+D83A","U+DCD0">>,
  <<"U+D83A","U+DCD1">>,<<"U+D83A","U+DCD2">>,<<"U+D83A","U+DCD3">>,
  <<"U+D83A","U+DCD4">>,<<"U+D83A","U+DCD5">>,<<"U+D83A","U+DCD6">>,
  <<"U+D83A","U+DD44">>,<<"U+D83A","U+DD45">>,<<"U+D83A","U+DD46">>,
  <<"U+D83A","U+DD47">>,<<"U+D83A","U+DD48">>,<<"U+D83A","U+DD49">>,
  <<"U+D83A","U+DD4A">>,<<"U+D83A","U+DD4B">>,<<"U+D83C","U+DFFB">>,
  <<"U+D83C","U+DFFC">>,<<"U+D83C","U+DFFD">>,<<"U+D83C","U+DFFE">>,
  <<"U+D83C","U+DFFF">>,<<"U+DB40","U+DC01">>,<<"U+DB40","U+DC20">>,
  <<"U+DB40","U+DC21">>,<<"U+DB40","U+DC22">>,<<"U+DB40","U+DC23">>,
  <<"U+DB40","U+DC24">>,<<"U+DB40","U+DC25">>,<<"U+DB40","U+DC26">>,
  <<"U+DB40","U+DC27">>,<<"U+DB40","U+DC28">>,<<"U+DB40","U+DC29">>,
  <<"U+DB40","U+DC2A">>,<<"U+DB40","U+DC2B">>,<<"U+DB40","U+DC2C">>,
  <<"U+DB40","U+DC2D">>,<<"U+DB40","U+DC2E">>,<<"U+DB40","U+DC2F">>,
  <<"U+DB40","U+DC30">>,<<"U+DB40","U+DC31">>,<<"U+DB40","U+DC32">>,
  <<"U+DB40","U+DC33">>,<<"U+DB40","U+DC34">>,<<"U+DB40","U+DC35">>,
  <<"U+DB40","U+DC36">>,<<"U+DB40","U+DC37">>,<<"U+DB40","U+DC38">>,
  <<"U+DB40","U+DC39">>,<<"U+DB40","U+DC3A">>,<<"U+DB40","U+DC3B">>,
  <<"U+DB40","U+DC3C">>,<<"U+DB40","U+DC3D">>,<<"U+DB40","U+DC3E">>,
  <<"U+DB40","U+DC3F">>,<<"U+DB40","U+DC40">>,<<"U+DB40","U+DC41">>,
  <<"U+DB40","U+DC42">>,<<"U+DB40","U+DC43">>,<<"U+DB40","U+DC44">>,
  <<"U+DB40","U+DC45">>,<<"U+DB40","U+DC46">>,<<"U+DB40","U+DC47">>,
  <<"U+DB40","U+DC48">>,<<"U+DB40","U+DC49">>,<<"U+DB40","U+DC4A">>,
  <<"U+DB40","U+DC4B">>,<<"U+DB40","U+DC4C">>,<<"U+DB40","U+DC4D">>,
  <<"U+DB40","U+DC4E">>,<<"U+DB40","U+DC4F">>,<<"U+DB40","U+DC50">>,
  <<"U+DB40","U+DC51">>,<<"U+DB40","U+DC52">>,<<"U+DB40","U+DC53">>,
  <<"U+DB40","U+DC54">>,<<"U+DB40","U+DC55">>,<<"U+DB40","U+DC56">>,
  <<"U+DB40","U+DC57">>,<<"U+DB40","U+DC58">>,<<"U+DB40","U+DC59">>,
  <<"U+DB40","U+DC5A">>,<<"U+DB40","U+DC5B">>,<<"U+DB40","U+DC5C">>,
  <<"U+DB40","U+DC5D">>,<<"U+DB40","U+DC5E">>,<<"U+DB40","U+DC5F">>,
  <<"U+DB40","U+DC60">>,<<"U+DB40","U+DC61">>,<<"U+DB40","U+DC62">>,
  <<"U+DB40","U+DC63">>,<<"U+DB40","U+DC64">>,<<"U+DB40","U+DC65">>,
  <<"U+DB40","U+DC66">>,<<"U+DB40","U+DC67">>,<<"U+DB40","U+DC68">>,
  <<"U+DB40","U+DC69">>,<<"U+DB40","U+DC6A">>,<<"U+DB40","U+DC6B">>,
  <<"U+DB40","U+DC6C">>,<<"U+DB40","U+DC6D">>,<<"U+DB40","U+DC6E">>,
  <<"U+DB40","U+DC6F">>,<<"U+DB40","U+DC70">>,<<"U+DB40","U+DC71">>,
  <<"U+DB40","U+DC72">>,<<"U+DB40","U+DC73">>,<<"U+DB40","U+DC74">>,
  <<"U+DB40","U+DC75">>,<<"U+DB40","U+DC76">>,<<"U+DB40","U+DC77">>,
  <<"U+DB40","U+DC78">>,<<"U+DB40","U+DC79">>,<<"U+DB40","U+DC7A">>,
  <<"U+DB40","U+DC7B">>,<<"U+DB40","U+DC7C">>,<<"U+DB40","U+DC7D">>,
  <<"U+DB40","U+DC7E">>,<<"U+DB40","U+DC7F">>,<<"U+DB40","U+DD00">>,
  <<"U+DB40","U+DD01">>,<<"U+DB40","U+DD02">>,<<"U+DB40","U+DD03">>,
  <<"U+DB40","U+DD04">>,<<"U+DB40","U+DD05">>,<<"U+DB40","U+DD06">>,
  <<"U+DB40","U+DD07">>,<<"U+DB40","U+DD08">>,<<"U+DB40","U+DD09">>,
  <<"U+DB40","U+DD0A">>,<<"U+DB40","U+DD0B">>,<<"U+DB40","U+DD0C">>,
  <<"U+DB40","U+DD0D">>,<<"U+DB40","U+DD0E">>,<<"U+DB40","U+DD0F">>,
  <<"U+DB40","U+DD10">>,<<"U+DB40","U+DD11">>,<<"U+DB40","U+DD12">>,
  <<"U+DB40","U+DD13">>,<<"U+DB40","U+DD14">>,<<"U+DB40","U+DD15">>,
  <<"U+DB40","U+DD16">>,<<"U+DB40","U+DD17">>,<<"U+DB40","U+DD18">>,
  <<"U+DB40","U+DD19">>,<<"U+DB40","U+DD1A">>,<<"U+DB40","U+DD1B">>,
  <<"U+DB40","U+DD1C">>,<<"U+DB40","U+DD1D">>,<<"U+DB40","U+DD1E">>,
  <<"U+DB40","U+DD1F">>,<<"U+DB40","U+DD20">>,<<"U+DB40","U+DD21">>,
  <<"U+DB40","U+DD22">>,<<"U+DB40","U+DD23">>,<<"U+DB40","U+DD24">>,
  <<"U+DB40","U+DD25">>,<<"U+DB40","U+DD26">>,<<"U+DB40","U+DD27">>,
  <<"U+DB40","U+DD28">>,<<"U+DB40","U+DD29">>,<<"U+DB40","U+DD2A">>,
  <<"U+DB40","U+DD2B">>,<<"U+DB40","U+DD2C">>,<<"U+DB40","U+DD2D">>,
  <<"U+DB40","U+DD2E">>,<<"U+DB40","U+DD2F">>,<<"U+DB40","U+DD30">>,
  <<"U+DB40","U+DD31">>,<<"U+DB40","U+DD32">>,<<"U+DB40","U+DD33">>,
  <<"U+DB40","U+DD34">>,<<"U+DB40","U+DD35">>,<<"U+DB40","U+DD36">>,
  <<"U+DB40","U+DD37">>,<<"U+DB40","U+DD38">>,<<"U+DB40","U+DD39">>,
  <<"U+DB40","U+DD3A">>,<<"U+DB40","U+DD3B">>,<<"U+DB40","U+DD3C">>,
  <<"U+DB40","U+DD3D">>,<<"U+DB40","U+DD3E">>,<<"U+DB40","U+DD3F">>,
  <<"U+DB40","U+DD40">>,<<"U+DB40","U+DD41">>,<<"U+DB40","U+DD42">>,
  <<"U+DB40","U+DD43">>,<<"U+DB40","U+DD44">>,<<"U+DB40","U+DD45">>,
  <<"U+DB40","U+DD46">>,<<"U+DB40","U+DD47">>,<<"U+DB40","U+DD48">>,
  <<"U+DB40","U+DD49">>,<<"U+DB40","U+DD4A">>,<<"U+DB40","U+DD4B">>,
  <<"U+DB40","U+DD4C">>,<<"U+DB40","U+DD4D">>,<<"U+DB40","U+DD4E">>,
  <<"U+DB40","U+DD4F">>,<<"U+DB40","U+DD50">>,<<"U+DB40","U+DD51">>,
  <<"U+DB40","U+DD52">>,<<"U+DB40","U+DD53">>,<<"U+DB40","U+DD54">>,
  <<"U+DB40","U+DD55">>,<<"U+DB40","U+DD56">>,<<"U+DB40","U+DD57">>,
  <<"U+DB40","U+DD58">>,<<"U+DB40","U+DD59">>,<<"U+DB40","U+DD5A">>,
  <<"U+DB40","U+DD5B">>,<<"U+DB40","U+DD5C">>,<<"U+DB40","U+DD5D">>,
  <<"U+DB40","U+DD5E">>,<<"U+DB40","U+DD5F">>,<<"U+DB40","U+DD60">>,
  <<"U+DB40","U+DD61">>,<<"U+DB40","U+DD62">>,<<"U+DB40","U+DD63">>,
  <<"U+DB40","U+DD64">>,<<"U+DB40","U+DD65">>,<<"U+DB40","U+DD66">>,
  <<"U+DB40","U+DD67">>,<<"U+DB40","U+DD68">>,<<"U+DB40","U+DD69">>,
  <<"U+DB40","U+DD6A">>,<<"U+DB40","U+DD6B">>,<<"U+DB40","U+DD6C">>,
  <<"U+DB40","U+DD6D">>,<<"U+DB40","U+DD6E">>,<<"U+DB40","U+DD6F">>,
  <<"U+DB40","U+DD70">>,<<"U+DB40","U+DD71">>,<<"U+DB40","U+DD72">>,
  <<"U+DB40","U+DD73">>,<<"U+DB40","U+DD74">>,<<"U+DB40","U+DD75">>,
  <<"U+DB40","U+DD76">>,<<"U+DB40","U+DD77">>,<<"U+DB40","U+DD78">>,
  <<"U+DB40","U+DD79">>,<<"U+DB40","U+DD7A">>,<<"U+DB40","U+DD7B">>,
  <<"U+DB40","U+DD7C">>,<<"U+DB40","U+DD7D">>,<<"U+DB40","U+DD7E">>,
  <<"U+DB40","U+DD7F">>,<<"U+DB40","U+DD80">>,<<"U+DB40","U+DD81">>,
  <<"U+DB40","U+DD82">>,<<"U+DB40","U+DD83">>,<<"U+DB40","U+DD84">>,
  <<"U+DB40","U+DD85">>,<<"U+DB40","U+DD86">>,<<"U+DB40","U+DD87">>,
  <<"U+DB40","U+DD88">>,<<"U+DB40","U+DD89">>,<<"U+DB40","U+DD8A">>,
  <<"U+DB40","U+DD8B">>,<<"U+DB40","U+DD8C">>,<<"U+DB40","U+DD8D">>,
  <<"U+DB40","U+DD8E">>,<<"U+DB40","U+DD8F">>,<<"U+DB40","U+DD90">>,
  <<"U+DB40","U+DD91">>,<<"U+DB40","U+DD92">>,<<"U+DB40","U+DD93">>,
  <<"U+DB40","U+DD94">>,<<"U+DB40","U+DD95">>,<<"U+DB40","U+DD96">>,
  <<"U+DB40","U+DD97">>,<<"U+DB40","U+DD98">>,<<"U+DB40","U+DD99">>,
  <<"U+DB40","U+DD9A">>,<<"U+DB40","U+DD9B">>,<<"U+DB40","U+DD9C">>,
  <<"U+DB40","U+DD9D">>,<<"U+DB40","U+DD9E">>,<<"U+DB40","U+DD9F">>,
  <<"U+DB40","U+DDA0">>,<<"U+DB40","U+DDA1">>,<<"U+DB40","U+DDA2">>,
  <<"U+DB40","U+DDA3">>,<<"U+DB40","U+DDA4">>,<<"U+DB40","U+DDA5">>,
  <<"U+DB40","U+DDA6">>,<<"U+DB40","U+DDA7">>,<<"U+DB40","U+DDA8">>,
  <<"U+DB40","U+DDA9">>,<<"U+DB40","U+DDAA">>,<<"U+DB40","U+DDAB">>,
  <<"U+DB40","U+DDAC">>,<<"U+DB40","U+DDAD">>,<<"U+DB40","U+DDAE">>,
  <<"U+DB40","U+DDAF">>,<<"U+DB40","U+DDB0">>,<<"U+DB40","U+DDB1">>,
  <<"U+DB40","U+DDB2">>,<<"U+DB40","U+DDB3">>,<<"U+DB40","U+DDB4">>,
  <<"U+DB40","U+DDB5">>,<<"U+DB40","U+DDB6">>,<<"U+DB40","U+DDB7">>,
  <<"U+DB40","U+DDB8">>,<<"U+DB40","U+DDB9">>,<<"U+DB40","U+DDBA">>,
  <<"U+DB40","U+DDBB">>,<<"U+DB40","U+DDBC">>,<<"U+DB40","U+DDBD">>,
  <<"U+DB40","U+DDBE">>,<<"U+DB40","U+DDBF">>,<<"U+DB40","U+DDC0">>,
  <<"U+DB40","U+DDC1">>,<<"U+DB40","U+DDC2">>,<<"U+DB40","U+DDC3">>,
  <<"U+DB40","U+DDC4">>,<<"U+DB40","U+DDC5">>,<<"U+DB40","U+DDC6">>,
  <<"U+DB40","U+DDC7">>,<<"U+DB40","U+DDC8">>,<<"U+DB40","U+DDC9">>,
  <<"U+DB40","U+DDCA">>,<<"U+DB40","U+DDCB">>,<<"U+DB40","U+DDCC">>,
  <<"U+DB40","U+DDCD">>,<<"U+DB40","U+DDCE">>,<<"U+DB40","U+DDCF">>,
  <<"U+DB40","U+DDD0">>,<<"U+DB40","U+DDD1">>,<<"U+DB40","U+DDD2">>,
  <<"U+DB40","U+DDD3">>,<<"U+DB40","U+DDD4">>,<<"U+DB40","U+DDD5">>,
  <<"U+DB40","U+DDD6">>,<<"U+DB40","U+DDD7">>,<<"U+DB40","U+DDD8">>,
  <<"U+DB40","U+DDD9">>,<<"U+DB40","U+DDDA">>,<<"U+DB40","U+DDDB">>,
  <<"U+DB40","U+DDDC">>,<<"U+DB40","U+DDDD">>,<<"U+DB40","U+DDDE">>,
  <<"U+DB40","U+DDDF">>,<<"U+DB40","U+DDE0">>,<<"U+DB40","U+DDE1">>,
  <<"U+DB40","U+DDE2">>,<<"U+DB40","U+DDE3">>,<<"U+DB40","U+DDE4">>,
  <<"U+DB40","U+DDE5">>,<<"U+DB40","U+DDE6">>,<<"U+DB40","U+DDE7">>,
  <<"U+DB40","U+DDE8">>,<<"U+DB40","U+DDE9">>,<<"U+DB40","U+DDEA">>,
  <<"U+DB40","U+DDEB">>,<<"U+DB40","U+DDEC">>,<<"U+DB40","U+DDED">>,
  <<"U+DB40","U+DDEE">>,<<"U+DB40","U+DDEF">>}

Digits == <<"0","1","2","3","4","5","6","7","8","9">>

\* The WhiteSpace and LineTerminator code points, which trim() and parseInt
\* strip: space, tab, LF, CR, FF, VT, NBSP, U+FEFF and the space separators
WhiteSpace ==
  {" ","\t","\n","\r","\f",""," ","﻿"," ","U+2000","U+2001","U+2002",
  "U+2003","U+2004","U+2005","U+2006","U+2007","U+2008","U+2009","U+200A",
  "U+2028","U+2029","U+202F","U+205F","U+3000"}

IsSpace(c) == c \in WhiteSpace

IsDigit(c) == \E d \in 1..10 : Digits[d] = c

DigitVal(c) == (CHOOSE d \in 1..10 : Digits[d] = c) - 1

UpperUnits == {UpperCase[k] : k \in 1..Len(UpperCase)}
Lowering ==
  [c \in UpperUnits |-> LowerCase[CHOOSE k \in 1..Len(UpperCase) : UpperCase[k] = c]]

UpperPairUnits == {UpperPairs[k] : k \in 1..Len(UpperPairs)}
LoweringPairs ==
  [c \in UpperPairUnits |-> LowerPairs[CHOOSE k \in 1..Len(UpperPairs) : UpperPairs[k] = c]]

\* The lowercase of one code unit on its own
LowerChar(c) == IF c \in UpperUnits THEN Lowering[c] ELSE c

\* The surrogate pairs the tables hold
KnownPairs == CasedPairs \cup CaseIgnorablePairs

\* The code points of s, each as the sequence of its code units: a
\* surrogate pair counts as one where the tables know the letter
RECURSIVE Points(_)
Points(s) ==
  IF s = <<>> THEN <<>>
  ELSE IF Len(s) >= 2 /\ SubSeq(s, 1, 2) \in KnownPairs
       THEN <<SubSeq(s, 1, 2)>> \o Points(SubSeq(s, 3, Len(s)))
       ELSE <<<<Head(s)>>>> \o Points(Tail(s))

IsCaseIgnorable(pt) ==
  IF Len(pt) = 1 THEN pt[1] \in CaseIgnorableUnits ELSE pt \in CaseIgnorablePairs

IsCased(pt) == IF Len(pt) = 1 THEN pt[1] \in CasedUnits ELSE pt \in CasedPairs

\* A cased letter comes before position i + 1, case-ignorable ones skipped
RECURSIVE CasedBefore(_, _)
CasedBefore(p, i) ==
  IF i = 0 THEN FALSE
  ELSE IF IsCaseIgnorable(p[i]) THEN CasedBefore(p, i - 1)
  ELSE IsCased(p[i])

\* A cased letter comes from position i on, case-ignorable ones skipped
RECURSIVE CasedAfter(_, _)
CasedAfter(p, i) ==
  IF i > Len(p) THEN FALSE
  ELSE IF IsCaseIgnorable(p[i]) THEN CasedAfter(p, i + 1)
  ELSE IsCased(p[i])

\* The lowercase of the i-th code point of p: a capital sigma that ends a
\* word becomes the final sigma, U+0130 becomes i and U+0307
LowerPoint(p, i) ==
  IF p[i] = <<"Σ">> /\ CasedBefore(p, i - 1) /\ ~CasedAfter(p, i + 1) THEN <<"ς">>
  ELSE IF p[i] = <<"U+0130">> THEN <<"i", "U+0307">>
  ELSE IF Len(p[i]) = 2
       THEN (IF p[i] \in UpperPairUnits THEN LoweringPairs[p[i]] ELSE p[i])
       ELSE <<LowerChar(p[i][1])>>

RECURSIVE LowerFrom(_, _)
LowerFrom(p, i) == IF i > Len(p) THEN <<>> ELSE LowerPoint(p, i) \o LowerFrom(p, i + 1)

\* String.prototype.toLowerCase
toLowerCase(s) == LowerFrom(Points(s), 1)

RECURSIVE TrimStart(_)
TrimStart(s) ==
  IF s # <<>> /\ IsSpace(Head(s)) THEN TrimStart(Tail(s)) ELSE s

RECURSIVE TrimEnd(_)
TrimEnd(s) ==
  IF s # <<>> /\ IsSpace(s[Len(s)]) THEN TrimEnd(SubSeq(s, 1, Len(s) - 1)) ELSE s

\* String.prototype.trim
trim(s) == TrimEnd(TrimStart(s))

\* String.prototype.includes
includes(s, q) ==
  \E i \in 0..(Len(s) - Len(q)) : SubSeq(s, i + 1, i + Len(q)) = q

\* The longest prefix of s made of digits
RECURSIVE DigitPrefix(_)
DigitPrefix(s) ==
  IF s # <<>> /\ IsDigit(Head(s)) THEN <<Head(s)>> \o DigitPrefix(Tail(s)) ELSE <<>>

\* The value of a digit string; the model's year inputs hold at most four
\* digits, far below the range where a JavaScript number loses exactness
RECURSIVE DigitsValue(_, _)
DigitsValue(s, acc) ==
  IF s = <<>> THEN acc ELSE DigitsValue(Tail(s), 10 * acc + DigitVal(Head(s)))

NaN == [nan |-> TRUE, val |-> 0]
Num(n) == [nan |-> FALSE, val |-> n]

\* parseInt(s, 10): leading white space, an optional sign, then decimal digits;
\* NaN when no digit follows.
parseInt(s) ==
  LET t == TrimStart(s)
      neg == t # <<>> /\ Head(t) = "-"
      u == IF t # <<>> /\ Head(t) \in {"-", "+"} THEN Tail(t) ELSE t
      ds == DigitPrefix(u)
  IN IF ds = <<>> THEN NaN
     ELSE Num(IF neg THEN 0 - DigitsValue(ds, 0) ELSE DigitsValue(ds, 0))

\* Truthiness of a number-or-NaN
TruthyNum(n) == ~n.nan /\ n.val # 0

----------------------------------------------------------------------------
(* Movies *)

Has(m, f) == f \in DOMAIN m

\* m.title || ''
TitleOf(m) == IF Has(m, "title") THEN m.title ELSE <<>>
\* m.genre || ''
GenreOf(m) == IF Has(m, "genre") THEN m.genre ELSE <<>>
\* m.year is truthy
HasYear(m) == Has(m, "year") /\ m.year # 0

\* An id as the code compares it: a number, or undefined, which differs
\* from every number, 0 included
Id(n) == [defined |-> TRUE, val |-> n]
Undefined == [defined |-> FALSE, val |-> 0]

\* m.id
IdOf(m) == IF Has(m, "id") THEN Id(m.id) ELSE Undefined

Ids(s) == {IdOf(s[i]) : i \in 1..Len(s)}

----------------------------------------------------------------------------
(* Renderer: script.js:31-66 *)

Untitled == <<"(","U","n","t","i","t","l","e","d",")">>
Unknown == <<"U","n","k","n","o","w","n">>

\* One div.movie-item: the bold title, the " (year) - genre" text, and the
\* movie the Edit and Delete listeners close over.
Row(m) ==
  [strong |-> IF TitleOf(m) # <<>> THEN m.title ELSE Untitled,
   metaYear |-> IF HasYear(m) THEN ToString(m.year) ELSE "N/A",
   metaGenre |-> IF GenreOf(m) # <<>> THEN m.genre ELSE Unknown,
   movie |-> m]

\* A value handed to renderMovies: an array of movies, or something else
ArrayOf(movies) == [isArray |-> TRUE, items |-> movies]
NotAnArray == [isArray |-> FALSE, items |-> <<>>]

renderMoviesKeepsPlaceholder(moviesToDisplay) ==
  LET emptied == <<>>
  IN IF ~moviesToDisplay.isArray \/ Len(moviesToDisplay.items) = 0
     THEN [placeholder |-> TRUE, rows |-> emptied]
     ELSE [placeholder |-> TRUE,
           rows |-> emptied \o [i \in 1..Len(moviesToDisplay.items) |->
                                  Row(moviesToDisplay.items[i])]]

\* What movieListEl holds after renderMovies(moviesToDisplay): innerHTML is
\* emptied, then the placeholder or one row per movie is appended.
renderMovies(moviesToDisplay) ==
  LET emptied == <<>>
  IN IF ~moviesToDisplay.isArray \/ Len(moviesToDisplay.items) = 0
     THEN [placeholder |-> TRUE, rows |-> emptied]
     ELSE [placeholder |-> FALSE,
           rows |-> emptied \o [i \in 1..Len(moviesToDisplay.items) |->
                                  Row(moviesToDisplay.items[i])]]

----------------------------------------------------------------------------
(* Filter: script.js:112-120 *)

filterMoviesUntrimmed(cache, query) ==
  LET q == toLowerCase(IF query.cancelled THEN <<>> ELSE query.text)
      Match(m) == \/ includes(toLowerCase(TitleOf(m)), q)
                  \/ includes(toLowerCase(GenreOf(m)), q)
  IN IF q = <<>> THEN cache ELSE SelectSeq(cache, Match)

filterMoviesTitleOnly(cache, query) ==
  LET q == toLowerCase(trim(IF query.cancelled THEN <<>> ELSE query.text))
      Match(m) == includes(toLowerCase(TitleOf(m)), q)
  IN IF q = <<>> THEN cache ELSE SelectSeq(cache, Match)

\* query is a string, or null/undefined when .cancelled holds: (query || '')
filterMovies(cache, query) ==
  LET q == toLowerCase(trim(IF query.cancelled THEN <<>> ELSE query.text))
      Match(m) == \/ includes(toLowerCase(TitleOf(m)), q)
                  \/ includes(toLowerCase(GenreOf(m)), q)
  IN IF q = <<>> THEN cache ELSE SelectSeq(cache, Match)

----------------------------------------------------------------------------
(* Error reporter: script.js:161-173 *)

showErrorNoTimer(message) ==
  /\ errEl' = IF errEl = 0 THEN 1 ELSE errEl
  /\ errText' = message
  /\ timers' = timers

\* showError(message): create the slot unless getElementById finds it, set
\* its text, start a timer that blanks it Delay seconds later.
showError(message) ==
  /\ errEl' = IF errEl = 0 THEN 1 ELSE errEl
  /\ errText' = message
  /\ timers' = Append(timers, Delay)

\* A showError call is modelled only while fewer than MaxTimers are pending.
CanReport == Len(timers) < MaxTimers

\* The oldest timer's callback: el.textContent = ''
TimerFire ==
  /\ timers # <<>>
  /\ Head(timers) = 0
  /\ errText' = <<>>
  /\ timers' = Tail(timers)
  /\ UNCHANGED <<lastHandled, allMovies, display, searchValue, form, errEl, started, net, db, nextId>>

\* One second passes; a due timer fires before the clock moves on.
Second ==
  /\ timers # <<>>
  /\ Head(timers) > 0
  /\ timers' = [i \in 1..Len(timers) |-> timers[i] - 1]
  /\ UNCHANGED <<lastHandled, allMovies, display, searchValue, form, errEl, errText, started, net, db, nextId>>

\* Time passes until the oldest pending timer is due: Head(timers) seconds
Tick ==
  /\ timers # <<>>
  /\ Head(timers) > 0
  /\ timers' = [i \in 1..Len(timers) |-> timers[i] - Head(timers)]
  /\ UNCHANGED <<lastHandled, allMovies, display, searchValue, form, errEl, errText, started, net, db, nextId>>

----------------------------------------------------------------------------
(* Requests in flight.  net[r] is the r-th request issued: "sent" until the *)
(* remote store or the transport settles it, "answered" until the client's *)
(* continuation has run, then Done.                                        *)

Request(method, id, body, prompts) ==
  [method |-> method, id |-> id, body |-> body, prompts |-> prompts,
   stage |-> "sent", outcome |-> "none", status |-> 0, payload |-> <<>>]

Done == [stage |-> "done"]

Sent(r) == r \in 1..Len(net) /\ net[r].stage = "sent"
Answered(r) == r \in 1..Len(net) /\ net[r].stage = "answered"

\* response.ok
Ok(x) == x.outcome = "ok"

Answer(r, outcome, status, payload) ==
  net' = [net EXCEPT ![r] = [@ EXCEPT !.stage = "answered", !.outcome = outcome,
                                      !.status = status, !.payload = payload]]

NothingHandled == [method |-> "none", id |-> Undefined, outcome |-> "none", status |-> 0]

Finish(r) ==
  /\ net' = [net EXCEPT ![r] = Done]
  /\ lastHandled' = [method |-> net[r].method, id |-> net[r].id,
                     outcome |-> net[r].outcome, status |-> net[r].status]

CanIssue == Len(net) < MaxReq

\* err.message of the rejection fetch() produces on a transport failure
FailedToFetch == "Failed to fetch"

ErrMessageNoStatus(prefix, x) ==
  IF x.outcome = "http" THEN <<prefix>> ELSE <<FailedToFetch>>

\* err.message in the catch handler of a request settled as x, where
\* prefix is the text the !ok branch puts before the status
ErrMessage(prefix, x) ==
  IF x.outcome = "http" THEN <<prefix, ToString(x.status)>> ELSE <<FailedToFetch>>

----------------------------------------------------------------------------
(* The remote store (json-server conventions, spec section 6) *)

HttpFailures == {500}

Merge(m, b) ==
  [f \in (DOMAIN m) \cup (DOMAIN b) |-> IF f \in DOMAIN b THEN b[f] ELSE m[f]]

Position(s, id) == CHOOSE i \in 1..Len(s) : IdOf(s[i]) = id

RemoveAt(s, i) == SubSeq(s, 1, i - 1) \o SubSeq(s, i + 1, Len(s))

ServerList(r) ==
  /\ Sent(r) /\ net[r].method = "GET"
  /\ Answer(r, "ok", 200, [isArray |-> TRUE, items |-> db])
  /\ UNCHANGED <<lastHandled, allMovies, display, searchValue, form, errEl, errText, timers,
                 started, db, nextId>>

\* A 2xx answer to the list request whose body is not an array
ServerListNotArray(r) ==
  /\ Sent(r) /\ net[r].method = "GET"
  /\ Answer(r, "ok", 200, [isArray |-> FALSE, items |-> <<>>])
  /\ UNCHANGED <<lastHandled, allMovies, display, searchValue, form, errEl, errText, timers,
                 started, db, nextId>>

ServerCreate(r) ==
  /\ Sent(r) /\ net[r].method = "POST"
  /\ Len(db) < MaxDb
  /\ LET created == Merge(net[r].body, [id |-> nextId])
     IN /\ db' = Append(db, created)
        /\ nextId' = nextId + 1
        /\ Answer(r, "ok", 201, created)
  /\ UNCHANGED <<lastHandled, allMovies, display, searchValue, form, errEl, errText, timers, started>>

ServerUpdate(r) ==
  /\ Sent(r) /\ net[r].method = "PATCH"
  /\ net[r].id \in Ids(db)
  /\ LET i == Position(db, net[r].id)
         updated == Merge(db[i], net[r].body)
     IN /\ db' = [db EXCEPT ![i] = updated]
        /\ Answer(r, "ok", 200, updated)
  /\ UNCHANGED <<lastHandled, allMovies, display, searchValue, form, errEl, errText, timers,
                 started, nextId>>

ServerRemove(r) ==
  /\ Sent(r) /\ net[r].method = "DELETE"
  /\ net[r].id \in Ids(db)
  /\ db' = RemoveAt(db, Position(db, net[r].id))
  /\ Answer(r, "ok", 200, <<>>)
  /\ UNCHANGED <<lastHandled, allMovies, display, searchValue, form, errEl, errText, timers,
                 started, nextId>>

Zero == [id |-> 0, title |-> <<"Z","e","r","o">>, year |-> 1990]
NoId == [title |-> <<"N","o","I","d">>, year |-> 2000]

\* A store that lists a movie with the id 0 and a movie without an id
ServerListNoId(r) ==
  /\ Sent(r) /\ net[r].method = "GET"
  /\ Answer(r, "ok", 200, [isArray |-> TRUE, items |-> <<Zero, NoId>>])
  /\ UNCHANGED <<lastHandled, allMovies, display, searchValue, form, errEl, errText, timers,
                 started, db, nextId>>

\* PATCH or DELETE of an id the collection does not hold
ServerNotFound(r) ==
  /\ Sent(r) /\ net[r].method \in {"PATCH", "DELETE"}
  /\ net[r].id \notin Ids(db)
  /\ Answer(r, "http", 404, <<>>)
  /\ UNCHANGED <<lastHandled, allMovies, display, searchValue, form, errEl, errText, timers,
                 started, db, nextId>>

\* Any request may be refused with a failure status
ServerFail(r, status) ==
  /\ Sent(r)
  /\ Answer(r, "http", status, <<>>)
  /\ UNCHANGED <<lastHandled, allMovies, display, searchValue, form, errEl, errText, timers,
                 started, db, nextId>>

\* The transport fails and fetch() rejects
TransportFail(r) ==
  /\ Sent(r)
  /\ Answer(r, "neterr", 0, <<>>)
  /\ UNCHANGED <<lastHandled, allMovies, display, searchValue, form, errEl, errText, timers,
                 started, db, nextId>>

----------------------------------------------------------------------------
(* What the user can type *)

Cancel == [cancelled |-> TRUE, text |-> <<>>]     \* window.prompt returned null
Text(s) == [cancelled |-> FALSE, text |-> s]

EmptyForm == [title |-> <<>>, genre |-> <<>>, year |-> <<>>]

FormInputs ==
  { [title |-> <<>>,                    genre |-> <<>>,        year |-> <<"2","0","2","0">>],
    [title |-> <<"U+3000">>,            genre |-> <<>>,        year |-> <<"2","0","2","0">>],
    [title |-> <<"N","o","p","e">>,     genre |-> <<>>,        year |-> <<>>],
    [title |-> <<"N","o","p","e">>,     genre |-> <<>>,        year |-> <<"0">>],
    [title |-> <<"N","o","p","e">>,     genre |-> <<>>,        year |-> <<"x">>],
    [title |-> <<" ","N","o","p","e">>, genre |-> <<"S"," ">>, year |-> <<"1","9","9","9">>] }

Queries == {<<>>, <<" ","S","C">>}

----------------------------------------------------------------------------
(* fetchMovies: script.js:18-29, called once on DOMContentLoaded (177) *)

Start ==
  /\ ~started
  /\ CanIssue
  /\ started' = TRUE
  /\ net' = Append(net, Request("GET", Undefined, <<>>, <<>>))
  /\ UNCHANGED <<lastHandled, allMovies, display, searchValue, form, errEl, errText, timers, db, nextId>>

\* fetchMovies called through window.__movieApp (script.js:180), which the
\* script publishes when it runs: before DOMContentLoaded or after it
Reload ==
  /\ CanIssue
  /\ net' = Append(net, Request("GET", Undefined, <<>>, <<>>))
  /\ UNCHANGED <<lastHandled, allMovies, display, searchValue, form, errEl, errText, timers,
                 started, db, nextId>>

ListOkAppends(r) ==
  /\ Answered(r) /\ net[r].method = "GET" /\ Ok(net[r])
  /\ allMovies' = allMovies \o (IF net[r].payload.isArray THEN net[r].payload.items ELSE <<>>)
  /\ display' = renderMovies(ArrayOf(allMovies'))
  /\ Finish(r)
  /\ UNCHANGED <<searchValue, form, errEl, errText, timers, started, db, nextId>>

\* .then(movies => ...)
ListOk(r) ==
  /\ Answered(r) /\ net[r].method = "GET" /\ Ok(net[r])
  /\ allMovies' = IF net[r].payload.isArray THEN net[r].payload.items ELSE <<>>
  /\ display' = renderMovies(ArrayOf(allMovies'))
  /\ Finish(r)
  /\ UNCHANGED <<searchValue, form, errEl, errText, timers, started, db, nextId>>

\* .catch(err => showError(...))
ListFail(r) ==
  /\ Answered(r) /\ net[r].method = "GET" /\ ~Ok(net[r])
  /\ CanReport
  /\ showError(<<"Error fetching movies: ">> \o
               (IF net[r].outcome = "http"
                THEN <<"Server returned ", ToString(net[r].status)>>
                ELSE <<FailedToFetch>>))
  /\ Finish(r)
  /\ UNCHANGED <<allMovies, display, searchValue, form, started, db, nextId>>

----------------------------------------------------------------------------
(* editMoviePrompt: script.js:69-97.  i is the row whose Edit button is   *)
(* clicked; title, yearInput and genre are what the three prompts return. *)
(* The guard of line 70 stops the click on a movie without an id, and    *)
(* only that one: the id 0 is an id.                                      *)

\* The early returns of lines 73 and 75
EditReturnsEarly(title, yearInput, genre) ==
  title.cancelled \/ yearInput.cancelled

\* The payload of line 79; JSON.stringify drops an undefined year
EditPayload(title, yearInput, genre) ==
  LET year == parseInt(yearInput.text)
      g == IF genre.cancelled THEN <<>> ELSE genre.text
      base == [title |-> trim(title.text), genre |-> trim(g)]
  IN IF TruthyNum(year) THEN Merge(base, [year |-> year.val]) ELSE base

\* if (id === undefined) return showError('Cannot edit: missing id'),
\* before any prompt is asked
EditMissingId(i) ==
  /\ i \in 1..Len(display.rows)
  /\ IdOf(display.rows[i].movie) = Undefined
  /\ CanReport
  /\ showError(<<"Cannot edit: missing id">>)
  /\ UNCHANGED <<lastHandled, allMovies, display, searchValue, form, started, net, db, nextId>>

EditAbort(i, title, yearInput, genre) ==
  /\ i \in 1..Len(display.rows)
  /\ IdOf(display.rows[i].movie) # Undefined
  /\ EditReturnsEarly(title, yearInput, genre)
  /\ UNCHANGED vars

EditSend(i, title, yearInput, genre) ==
  /\ i \in 1..Len(display.rows)
  /\ IdOf(display.rows[i].movie) # Undefined
  /\ ~EditReturnsEarly(title, yearInput, genre)
  /\ CanIssue
  /\ net' = Append(net, Request("PATCH", IdOf(display.rows[i].movie),
                                EditPayload(title, yearInput, genre),
                                <<title, yearInput, genre>>))
  /\ UNCHANGED <<lastHandled, allMovies, display, searchValue, form, errEl, errText, timers,
                 started, db, nextId>>

ReplaceByIdInverted(cache, id, updated) ==
  [k \in 1..Len(cache) |-> IF IdOf(cache[k]) = id THEN cache[k] ELSE updated]

\* allMovies.map(m => (m.id === id ? updated : m))
ReplaceById(cache, id, updated) ==
  [k \in 1..Len(cache) |-> IF IdOf(cache[k]) = id THEN updated ELSE cache[k]]

UpdateOkFirstResponseWins(r) ==
  /\ Answered(r) /\ net[r].method = "PATCH" /\ Ok(net[r])
  /\ allMovies' = IF lastHandled.method = "PATCH" /\ lastHandled.id = net[r].id
                  THEN allMovies
                  ELSE ReplaceById(allMovies, net[r].id, net[r].payload)
  /\ display' = renderMovies(ArrayOf(filterMovies(allMovies', Text(searchValue))))
  /\ Finish(r)
  /\ UNCHANGED <<searchValue, form, errEl, errText, timers, started, db, nextId>>

UpdateOkRendersAll(r) ==
  /\ Answered(r) /\ net[r].method = "PATCH" /\ Ok(net[r])
  /\ allMovies' = ReplaceById(allMovies, net[r].id, net[r].payload)
  /\ display' = renderMovies(ArrayOf(allMovies'))
  /\ Finish(r)
  /\ UNCHANGED <<searchValue, form, errEl, errText, timers, started, db, nextId>>

\* .then(updated => ...)
UpdateOk(r) ==
  /\ Answered(r) /\ net[r].method = "PATCH" /\ Ok(net[r])
  /\ allMovies' = ReplaceById(allMovies, net[r].id, net[r].payload)
  /\ display' = renderMovies(ArrayOf(filterMovies(allMovies', Text(searchValue))))
  /\ Finish(r)
  /\ UNCHANGED <<searchValue, form, errEl, errText, timers, started, db, nextId>>

\* .catch(err => showError(err.message))
UpdateFail(r) ==
  /\ Answered(r) /\ net[r].method = "PATCH" /\ ~Ok(net[r])
  /\ CanReport
  /\ showError(ErrMessage("Update failed: ", net[r]))
  /\ Finish(r)
  /\ UNCHANGED <<allMovies, display, searchValue, form, started, db, nextId>>

----------------------------------------------------------------------------
(* deleteMovie: script.js:99-110 *)

DeleteDeclined(i) ==
  /\ i \in 1..Len(display.rows)
  /\ UNCHANGED vars

DeleteSend(i) ==
  /\ i \in 1..Len(display.rows)
  /\ CanIssue
  /\ net' = Append(net, Request("DELETE", IdOf(display.rows[i].movie), <<>>, <<>>))
  /\ UNCHANGED <<lastHandled, allMovies, display, searchValue, form, errEl, errText, timers,
                 started, db, nextId>>

\* allMovies.filter(m => m.id !== id)
RemoveById(cache, id) ==
  LET Keep(m) == IdOf(m) # id IN SelectSeq(cache, Keep)

DeleteOkNoRender(r) ==
  /\ Answered(r) /\ net[r].method = "DELETE" /\ Ok(net[r])
  /\ allMovies' = RemoveById(allMovies, net[r].id)
  /\ display' = display
  /\ Finish(r)
  /\ UNCHANGED <<searchValue, form, errEl, errText, timers, started, db, nextId>>

DeleteOk(r) ==
  /\ Answered(r) /\ net[r].method = "DELETE" /\ Ok(net[r])
  /\ allMovies' = RemoveById(allMovies, net[r].id)
  /\ display' = renderMovies(ArrayOf(allMovies'))
  /\ Finish(r)
  /\ UNCHANGED <<searchValue, form, errEl, errText, timers, started, db, nextId>>

DeleteFail(r) ==
  /\ Answered(r) /\ net[r].method = "DELETE" /\ ~Ok(net[r])
  /\ CanReport
  /\ showError(ErrMessage("Delete failed: ", net[r]))
  /\ Finish(r)
  /\ UNCHANGED <<allMovies, display, searchValue, form, started, db, nextId>>

----------------------------------------------------------------------------
(* Search input listener: script.js:122-125 *)

SearchRendersAll(query) ==
  /\ searchValue' = query
  /\ display' = renderMovies(ArrayOf(allMovies))
  /\ UNCHANGED <<lastHandled, allMovies, form, errEl, errText, timers, started, net, db, nextId>>

Search(query) ==
  /\ searchValue' = query
  /\ display' = renderMovies(ArrayOf(filterMovies(allMovies, Text(query))))
  /\ UNCHANGED <<lastHandled, allMovies, form, errEl, errText, timers, started, net, db, nextId>>

----------------------------------------------------------------------------
(* Add form submit listener: script.js:127-159.  The user has filled the  *)
(* fields with input and submits.                                         *)

\* const year = yearVal ? parseInt(yearVal, 10) : undefined, and !year
YearOf(yearVal) == IF yearVal # <<>> THEN parseInt(yearVal) ELSE NaN

RejectedTitleOnly(input) == trim(input.title) = <<>>

\* !title || !year
Rejected(input) == trim(input.title) = <<>> \/ ~TruthyNum(YearOf(input.year))

SubmitInvalid(input) ==
  /\ Rejected(input)
  /\ CanReport
  /\ form' = input
  /\ showError(<<"Please provide Title and Year">>)
  /\ UNCHANGED <<lastHandled, allMovies, display, searchValue, started, net, db, nextId>>

SubmitValid(input) ==
  /\ ~Rejected(input)
  /\ CanIssue
  /\ form' = input
  /\ net' = Append(net, Request("POST", Undefined,
                                [title |-> trim(input.title), genre |-> trim(input.genre),
                                 year |-> YearOf(input.year).val],
                                <<>>))
  /\ UNCHANGED <<lastHandled, allMovies, display, searchValue, errEl, errText, timers, started, db, nextId>>

Unshift(cache, created) == <<created>> \o cache

\* allMovies.push(created)
Push(cache, created) == Append(cache, created)

CreateOk(r) ==
  /\ Answered(r) /\ net[r].method = "POST" /\ Ok(net[r])
  /\ allMovies' = Push(allMovies, net[r].payload)
  /\ display' = renderMovies(ArrayOf(allMovies'))
  /\ form' = EmptyForm
  /\ Finish(r)
  /\ UNCHANGED <<searchValue, errEl, errText, timers, started, db, nextId>>

CreateFail(r) ==
  /\ Answered(r) /\ net[r].method = "POST" /\ ~Ok(net[r])
  /\ CanReport
  /\ showError(ErrMessage("Add failed: ", net[r]))
  /\ Finish(r)
  /\ UNCHANGED <<allMovies, display, searchValue, form, started, db, nextId>>

----------------------------------------------------------------------------
(* The system *)

Dune == [id |-> 1, title |-> <<"D","u","n","e">>, year |-> 2021, genre |-> <<"S","c","i">>]
Amelie == [id |-> 2, title |-> <<"A","m","e","l","i","e">>, year |-> 2001]

InitialCollections == {<<Dune, Amelie>>}

Init ==
  /\ allMovies = <<>>
  /\ display = [placeholder |-> FALSE, rows |-> <<>>]
  /\ searchValue = <<>>
  /\ form = EmptyForm
  /\ errEl = 0
  /\ errText = <<>>
  /\ timers = <<>>
  /\ started = FALSE
  /\ net = <<>>
  /\ lastHandled = NothingHandled
  /\ db \in InitialCollections
  /\ nextId = Len(db) + 1

Requests == 1..MaxReq

Titles == {Cancel, Text(<<"U","p"," ">>)}
Years == {Cancel, Text(<<>>), Text(<<"\t","1","9","x">>)}
Genres == {Cancel, Text(<<" ","s","c","i">>)}

ValidInput == [title |-> <<" ","N","o","p","e">>, genre |-> <<"S"," ">>,
               year |-> <<"1","9","9","9">>]

\* The application: the initial load, the edit, delete, search and add
\* flows, the timers, the remote store and the transport, all interleaved,
\* on one title per edit and one accepted submission.  Rejected submissions
\* and the other prompt results are in SpecAdd, SpecReporter and SpecEdit.
Next ==
  \/ Start
  \/ \E r \in Requests : ListOk(r)
  \/ \E r \in Requests : ListFail(r)
  \/ \E i \in 1..Len(display.rows), y \in Years :
       EditAbort(i, Text(<<"U","p"," ">>), y, Cancel)
  \/ \E i \in 1..Len(display.rows), y \in Years :
       EditSend(i, Text(<<"U","p"," ">>), y, Cancel)
  \/ \E r \in Requests : UpdateOk(r)
  \/ \E r \in Requests : UpdateFail(r)
  \/ \E i \in 1..Len(display.rows) : DeleteDeclined(i)
  \/ \E i \in 1..Len(display.rows) : DeleteSend(i)
  \/ \E r \in Requests : DeleteOk(r)
  \/ \E r \in Requests : DeleteFail(r)
  \/ \E q \in Queries : Search(q)
  \/ SubmitValid(ValidInput)
  \/ \E r \in Requests : CreateOk(r)
  \/ \E r \in Requests : CreateFail(r)
  \/ TimerFire
  \/ Tick
  \/ \E r \in Requests : ServerList(r)
  \/ \E r \in Requests : ServerListNotArray(r)
  \/ \E r \in Requests : ServerCreate(r)
  \/ \E r \in Requests : ServerUpdate(r)
  \/ \E r \in Requests : ServerRemove(r)
  \/ \E r \in Requests : ServerNotFound(r)
  \/ \E r \in Requests, status \in HttpFailures : ServerFail(r, status)
  \/ \E r \in Requests : TransportFail(r)

Spec == Init /\ [][Next]_vars

\* The load flow with calls of the exported fetchMovies at any time, beside
\* the add, delete and search flows
NextLoad ==
  \/ Start
  \/ Reload
  \/ \E r \in Requests : ListOk(r)
  \/ \E r \in Requests : ListFail(r)
  \/ \E i \in 1..Len(display.rows) : DeleteSend(i)
  \/ \E r \in Requests : DeleteOk(r)
  \/ \E r \in Requests : DeleteFail(r)
  \/ \E q \in Queries : Search(q)
  \/ SubmitValid(ValidInput)
  \/ \E r \in Requests : CreateOk(r)
  \/ \E r \in Requests : CreateFail(r)
  \/ TimerFire
  \/ Tick
  \/ \E r \in Requests : ServerList(r)
  \/ \E r \in Requests : ServerListNotArray(r)
  \/ \E r \in Requests : ServerCreate(r)
  \/ \E r \in Requests : ServerRemove(r)
  \/ \E r \in Requests : ServerNotFound(r)
  \/ \E r \in Requests, status \in HttpFailures : ServerFail(r, status)
  \/ \E r \in Requests : TransportFail(r)

SpecLoad == Init /\ [][NextLoad]_vars

\* The load and edit flows alone, on every combination of prompt results
NextEdit ==
  \/ Start
  \/ \E r \in Requests : ListOk(r)
  \/ \E r \in Requests : ListFail(r)
  \/ \E i \in 1..Len(display.rows) : EditMissingId(i)
  \/ \E i \in 1..Len(display.rows), t \in Titles, y \in Years, g \in Genres :
       EditAbort(i, t, y, g)
  \/ \E i \in 1..Len(display.rows), t \in Titles, y \in Years, g \in Genres :
       EditSend(i, t, y, g)
  \/ \E r \in Requests : UpdateOk(r)
  \/ \E r \in Requests : UpdateFail(r)
  \/ \E q \in Queries : Search(q)
  \/ TimerFire
  \/ Tick
  \/ \E r \in Requests : ServerList(r)
  \/ \E r \in Requests : ServerListNoId(r)
  \/ \E r \in Requests : ServerUpdate(r)
  \/ \E r \in Requests, status \in HttpFailures : ServerFail(r, status)
  \/ \E r \in Requests : TransportFail(r)

SpecEdit == Init /\ [][NextEdit]_vars

\* The add flow alone, on every form input
NextAdd ==
  \/ \E input \in FormInputs : SubmitInvalid(input)
  \/ \E input \in FormInputs : SubmitValid(input)
  \/ \E r \in Requests : CreateOk(r)
  \/ \E r \in Requests : CreateFail(r)
  \/ TimerFire
  \/ Tick
  \/ \E r \in Requests : ServerCreate(r)
  \/ \E r \in Requests, status \in HttpFailures : ServerFail(r, status)
  \/ \E r \in Requests : TransportFail(r)

SpecAdd == Init /\ [][NextAdd]_vars

\* The error reporter second by second: reports come from rejected
\* submissions and from failed loads.
NextReporter ==
  \/ Start
  \/ \E r \in Requests : ListFail(r)
  \/ \E input \in FormInputs : SubmitInvalid(input)
  \/ TimerFire
  \/ Second
  \/ \E r \in Requests, status \in HttpFailures : ServerFail(r, status)
  \/ \E r \in Requests : TransportFail(r)

SpecReporter == Init /\ [][NextReporter]_vars

\* The browser runs a due timer callback, and time goes on
SpecReporterFair == SpecReporter /\ WF_vars(TimerFire) /\ WF_vars(Second)

----------------------------------------------------------------------------
(* The filter and the renderer on their own: any collection the remote     *)
(* store can hold has been loaded, then queries are typed and renderMovies *)
(* is called from the page (it is a global function of the script).        *)

MaxShelf == 2

Nameless == [id |-> 3, year |-> 1999, genre |-> <<"s","C","I","f","i">>]
Disco == [id |-> 4, title |-> <<"D","i","S","C","o">>, genre |-> <<"É","Ο","Σ">>]

\* Collections of at most MaxShelf movies with distinct ids
Shelves ==
  {s \in UNION {[1..n -> {Dune, Amelie, Nameless, Disco}] : n \in 0..MaxShelf} :
     \A i, j \in 1..Len(s) : IdOf(s[i]) = IdOf(s[j]) => i = j}

ViewQueries == {<<>>, <<" ">>, <<" ", " ">>, <<"\t", "U+2028">>, <<" ","S","C">>,
                <<"s","c">>, <<"s","c"," ">>, <<"U+3000","É","ο","\n">>, <<"E">>, <<"x">>,
                <<"Σ">>}

\* The state a successful load of the collection leaves
InitView ==
  /\ allMovies \in Shelves
  /\ display = renderMovies(ArrayOf(allMovies))
  /\ searchValue = <<>>
  /\ form = EmptyForm
  /\ errEl = 0
  /\ errText = <<>>
  /\ timers = <<>>
  /\ started = TRUE
  /\ net = <<Done>>
  /\ lastHandled = [method |-> "GET", id |-> Undefined, outcome |-> "ok", status |-> 200]
  /\ db = allMovies
  /\ nextId = 5

\* renderMovies(value) called directly
RenderCall(value) ==
  /\ display' = renderMovies(value)
  /\ UNCHANGED <<lastHandled, allMovies, searchValue, form, errEl, errText, timers,
                 started, net, db, nextId>>

RenderArguments == {NotAnArray, ArrayOf(<<>>), ArrayOf(allMovies)}

NextView ==
  \/ \E q \in ViewQueries : Search(q)
  \/ \E value \in RenderArguments : RenderCall(value)

SpecView == InitView /\ [][NextView]_vars

----------------------------------------------------------------------------
(* Properties *)

\* This step runs the continuation of request r, settled as outcome
Handles(r, method, outcomes) ==
  /\ r \in 1..Len(net)
  /\ net[r].stage = "answered"
  /\ net[r].method = method
  /\ net[r].outcome \in outcomes
  /\ net'[r].stage = "done"

Failure == {"http", "neterr"}

Mentions(text, status) == \E k \in 1..Len(text) : text[k] = ToString(status)

\* C1: when a create, update or delete request ends in a non-2xx response
\* or a transport failure, handling that outcome leaves the cache as it was
\* and reports one error message, which carries the status of a non-2xx
\* response.
C1_FailedMutationLeavesCache ==
  [][\A r \in Requests, method \in {"POST", "PATCH", "DELETE"} :
       Handles(r, method, Failure) =>
         /\ allMovies' = allMovies
         /\ errEl' = 1
         /\ errText' # <<>>
         /\ timers' = Append(timers, Delay)
         /\ (net[r].outcome = "http" => Mentions(errText', net[r].status))]_vars

C1_Witness ==
  /\ lastHandled.method \in {"POST", "PATCH", "DELETE"}
  /\ lastHandled.outcome = "http"
  /\ allMovies # <<>>
  /\ Mentions(errText, lastHandled.status)

\* C2: a PATCH request is in flight only if none of the three prompts of its
\* edit was cancelled.
C2_PatchOnlyWhenNoPromptCancelled ==
  \A r \in 1..Len(net) :
    (net[r].stage # "done" /\ net[r].method = "PATCH") =>
      \A k \in 1..3 : ~net[r].prompts[k].cancelled

\* C3: while the latest report is less than Delay seconds old (its timer is
\* still pending and not yet due) the slot shows a message.
C3_LatestMessageShownForDelay ==
  (timers # <<>> /\ timers[Len(timers)] > 0) => errText # <<>>

\* C4: the cache never holds two entries with the same id.
C4_NoDuplicateIds ==
  \A i, j \in 1..Len(allMovies) : i # j => IdOf(allMovies[i]) # IdOf(allMovies[j])

\* C5: an id leaves the cache only in the step that handles a successful
\* DELETE response for that id.
C5_LeavesOnlyByDelete ==
  [][\A id \in Ids(allMovies) :
       id \notin Ids(allMovies') =>
         \E r \in Requests : Handles(r, "DELETE", {"ok"}) /\ net[r].id = id]_vars

\* Missing fields of a submission, as the add form's contract words them
C6_TitleMissing(input) == \A k \in 1..Len(input.title) : input.title[k] \in WhiteSpace

C6_YearMissing(input) ==
  \/ input.year = <<>>
  \/ parseInt(input.year).nan
  \/ parseInt(input.year).val = 0

C6_Missing(input) == C6_TitleMissing(input) \/ C6_YearMissing(input)

C6_PostSent == Len(net') = Len(net) + 1 /\ net'[Len(net')].method = "POST"

\* C6: a submission whose title is empty or blank, or whose year is empty,
\* not a number or zero, sends nothing, leaves cache and display alone and
\* reports the validation message at once; every other submission sends one
\* POST, and a POST is sent only by a submission with both fields present.
C6_MissingFieldsRejected ==
  [][/\ (form' # form /\ form' # EmptyForm) =>
          IF C6_Missing(form')
          THEN /\ net' = net
               /\ allMovies' = allMovies
               /\ display' = display
               /\ errText' = <<"Please provide Title and Year">>
               /\ timers' = Append(timers, Delay)
          ELSE C6_PostSent
     /\ C6_PostSent => ~C6_Missing(form')]_vars

C6_Witness ==
  /\ form # EmptyForm
  /\ C6_Missing(form)
  /\ errText = <<"Please provide Title and Year">>
  /\ allMovies # <<>>
  /\ \A r \in 1..Len(net) : net[r].stage = "done"

\* C7: handling a successful DELETE response for id leaves no entry with
\* that id, shrinks the cache by exactly one if id was present and by
\* nothing otherwise, and keeps every other entry in its order.
C7_DeleteRemovesExactlyOne ==
  [][\A r \in Requests :
       Handles(r, "DELETE", {"ok"}) =>
         LET id == net[r].id
             Other(m) == IdOf(m) # id
         IN /\ id \notin Ids(allMovies')
            /\ Len(allMovies') = Len(allMovies) - (IF id \in Ids(allMovies) THEN 1 ELSE 0)
            /\ SelectSeq(allMovies', Other) = SelectSeq(allMovies, Other)]_vars

\* C8: handling a successful PATCH response for an id the cache holds keeps
\* the cache's size, puts the returned movie at that id's position and
\* leaves every other position as it was.
C8_UpdateReplacesInPlace ==
  [][\A r \in Requests :
       (Handles(r, "PATCH", {"ok"}) /\ net[r].id \in Ids(allMovies)) =>
         /\ Len(allMovies') = Len(allMovies)
         /\ \A k \in 1..Len(allMovies) :
              allMovies'[k] = IF IdOf(allMovies[k]) = net[r].id
                              THEN net[r].payload ELSE allMovies[k]]_vars

C8_Witness ==
  /\ lastHandled.method = "PATCH"
  /\ lastHandled.outcome = "ok"
  /\ \E k \in 1..Len(allMovies) :
       /\ IdOf(allMovies[k]) = lastHandled.id
       /\ allMovies[k].title = <<"U","p">>
  /\ \E k \in 1..Len(allMovies) : IdOf(allMovies[k]) # lastHandled.id

\* C9: handling a successful POST response whose movie's id the cache does
\* not hold yet grows the cache by one: the returned movie, with its id,
\* becomes the last entry and the entries before it are as they were.
C9_CreateAppends ==
  [][\A r \in Requests :
       (Handles(r, "POST", {"ok"}) /\ IdOf(net[r].payload) \notin Ids(allMovies)) =>
         /\ Len(allMovies') = Len(allMovies) + 1
         /\ allMovies'[Len(allMovies')] = net[r].payload
         /\ SubSeq(allMovies', 1, Len(allMovies)) = allMovies]_vars

C9_Witness ==
  /\ lastHandled.method = "POST"
  /\ lastHandled.outcome = "ok"
  /\ Len(allMovies) > 1
  /\ Cardinality(Ids(allMovies)) = Len(allMovies)
  /\ allMovies[Len(allMovies)].title = <<"N","o","p","e">>
  /\ IdOf(allMovies[Len(allMovies)]) = Id(nextId - 1)

\* C10: the update applied for a successful PATCH response is an upsert:
\* it replaces in place the entry with that id and leaves the others, or,
\* when the cache holds no entry with that id, appends the returned movie.
C10_UpdateIsUpsert ==
  [][\A r \in Requests :
       Handles(r, "PATCH", {"ok"}) =>
         IF net[r].id \in Ids(allMovies)
         THEN /\ Len(allMovies') = Len(allMovies)
              /\ \A k \in 1..Len(allMovies) :
                   allMovies'[k] = IF IdOf(allMovies[k]) = net[r].id
                                   THEN net[r].payload
                                   ELSE allMovies[k]
         ELSE allMovies' = Append(allMovies, net[r].payload)]_vars

Lowered(s) == toLowerCase(s)

IsSubstring(q, s) ==
  \E k \in 0..(Len(s) - Len(q)) : \A j \in 1..Len(q) : s[k + j] = q[j]

\* The entries of cache that hold needle in the lowercased title or genre,
\* a missing title or genre counting as the empty string
Holding(cache, needle) ==
  {k \in 1..Len(cache) :
     \/ IsSubstring(needle, Lowered(IF Has(cache[k], "title") THEN cache[k].title ELSE <<>>))
     \/ IsSubstring(needle, Lowered(IF Has(cache[k], "genre") THEN cache[k].genre ELSE <<>>))}

\* The entries of cache that occur in the sequence out
Kept(cache, out) == {k \in 1..Len(cache) : \E j \in 1..Len(out) : out[j] = cache[k]}

Blank(q) == \A k \in 1..Len(q) : q[k] \in WhiteSpace

\* C11 as stated: for every cache and every non-empty query q, an entry is
\* in filter(cache, q) exactly when the lowercased q is a substring of its
\* lowercased title or genre, a missing title or genre counting as empty.
C11_LoweredQueryDecides ==
  \A q \in ViewQueries :
    q # <<>> =>
      Kept(allMovies, filterMovies(allMovies, Text(q))) = Holding(allMovies, Lowered(q))

\* C11 amended: for every cache and every query q that is not empty or
\* whitespace-only, an entry is in filter(cache, q) exactly when q, trimmed
\* and lowercased, is a substring of its lowercased title or genre, a
\* missing title or genre counting as empty.
C11_TrimmedLoweredQueryDecides ==
  \A q \in ViewQueries :
    ~Blank(q) =>
      Kept(allMovies, filterMovies(allMovies, Text(q))) =
        Holding(allMovies, Lowered(trim(q)))

\* A padded query has been typed on a cache where it keeps the entry whose
\* genre only holds it and the entry without a title, and drops another
C11_Witness ==
  /\ searchValue = <<" ","S","C">>
  /\ allMovies = <<Dune, Amelie>>
  /\ Len(display.rows) = 1 /\ display.rows[1].movie = Dune

\* The queries that are empty, whitespace-only or absent
BlankQueries == {Cancel} \cup {Text(q) : q \in {v \in ViewQueries : Blank(v)}}

\* C12: for every cache, filter(cache, q) with q empty, whitespace-only or
\* absent returns the cache unchanged: the same entries in the same order.
C12_BlankQueryReturnsCache ==
  \A q \in BlankQueries : filterMovies(allMovies, q) = allMovies

\* A whitespace-only query has been typed on a cache of two entries, and
\* both are shown in the cache's order
C12_Witness ==
  /\ searchValue = <<" ", " ">>
  /\ Len(allMovies) = 2
  /\ Cardinality(BlankQueries) = 5
  /\ [i \in 1..Len(display.rows) |-> display.rows[i].movie] = allMovies

\* The output render owes for value: the placeholder alone, or one row per
\* entity in order whose Edit and Delete listeners hold that entity's id
Rendered(shown, value) ==
  IF ~value.isArray \/ Len(value.items) = 0
  THEN shown.placeholder /\ Len(shown.rows) = 0
  ELSE /\ ~shown.placeholder
       /\ Len(shown.rows) = Len(value.items)
       /\ \A i \in 1..Len(value.items) :
            /\ shown.rows[i].movie = value.items[i]
            /\ IdOf(shown.rows[i].movie) = IdOf(value.items[i])

\* C13: render(sequence) replaces the previous output: for an empty or
\* non-array argument it leaves exactly the placeholder and no row; for a
\* non-empty sequence it leaves no placeholder and exactly one row per
\* entity, in order, each bound to that entity's id, and no earlier row.
C13_RenderReplacesOutput ==
  [][/\ \A value \in RenderArguments :
          RenderCall(value) => Rendered(display', value)
     /\ \A q \in ViewQueries :
          Search(q) => Rendered(display', ArrayOf(filterMovies(allMovies, Text(q))))]_vars

\* After a query that showed rows of a two-entry cache, a render of an
\* empty or non-array argument has left the placeholder alone
C13_Witness ==
  /\ Len(allMovies) = 2
  /\ searchValue = <<"E">>
  /\ display.placeholder
  /\ display.rows = <<>>
  /\ Len(filterMovies(allMovies, Text(searchValue))) > 0

\* This step issues a DELETE request
SendsDelete == Len(net') = Len(net) + 1 /\ net'[Len(net')].method = "DELETE"

\* A DELETE of id has been issued and its continuation has not run yet
DeletePending(id) ==
  \E r \in 1..Len(net) : net[r].stage # "done" /\ net[r].method = "DELETE" /\ net[r].id = id

\* C14: the confirmed delete trigger only sends the DELETE request, leaving
\* the cache and the display as they are; an entry whose delete is pending
\* leaves the cache only in the step that handles a success response to a
\* DELETE of its id, never between the trigger and the response.
C14_RemovedOnlyOnDeleteSuccess ==
  [][/\ SendsDelete => allMovies' = allMovies /\ display' = display
     /\ \A id \in Ids(allMovies) \ Ids(allMovies') :
          DeletePending(id) =>
            \E r \in Requests : Handles(r, "DELETE", {"ok"}) /\ net[r].id = id]_vars

\* The entities of the rows on display, in order
Shown(d) == [i \in 1..Len(d.rows) |-> d.rows[i].movie]

\* C15: handling a successful edit leaves on display filter(cache, query)
\* for the updated cache and the search query current at that time; handling
\* a successful delete or create leaves the full updated cache on display,
\* whatever the search query.
C15_DisplayAfterSuccess ==
  [][\A r \in Requests :
       /\ Handles(r, "PATCH", {"ok"}) =>
            Shown(display') = filterMovies(allMovies', Text(searchValue'))
       /\ Handles(r, "DELETE", {"ok"}) \/ Handles(r, "POST", {"ok"}) =>
            Shown(display') = allMovies']_vars

\* A successful edit was handled last while a query was active, and the
\* display holds fewer entries than the cache
C15_Witness ==
  /\ lastHandled.method = "PATCH" /\ lastHandled.outcome = "ok"
  /\ searchValue = <<" ","S","C">>
  /\ Len(allMovies) = 2
  /\ Len(display.rows) < Len(allMovies)
  /\ Shown(display) = filterMovies(allMovies, Text(searchValue))

\* C16: there is never more than one notification slot; a message on show
\* has a pending timer, started with the last report and due no later than
\* Delay seconds after it; and every message on show is eventually cleared.
C16_EveryMessageCleared ==
  /\ [](/\ errEl <= 1
        /\ errText # <<>> =>
             /\ errEl = 1
             /\ timers # <<>>
             /\ \A k \in 1..Len(timers) : timers[k] <= Delay)
  /\ (errText # <<>> ~> errText = <<>>)

\* A failed load and a rejected submission have both been reported, into
\* one slot, and the slot is empty again with no timer left
C16_Witness ==
  /\ lastHandled.method = "GET" /\ lastHandled.outcome \in Failure
  /\ form # EmptyForm
  /\ errEl = 1
  /\ errText = <<>>
  /\ timers = <<>>

\* This step issues the list request
SendsList == Len(net') = Len(net) + 1 /\ net'[Len(net')].method = "GET"

\* C17: the application's start issues the list request, exactly once, and
\* no handler of the page issues another: a step that sends a list request
\* and is not the start changes nothing but the network, as a call of the
\* exported fetchMovies does, before the start or after it; handling a list success makes the cache exactly the
\* returned sequence (empty if the payload is not an array) and renders the
\* full cache; handling a non-2xx response or a transport failure reports
\* an error and leaves the cache and the display as they are.
C17_InitialLoad ==
  [][/\ (~started /\ started') => SendsList /\ SubSeq(net', 1, Len(net)) = net
     /\ SendsList =>
          \/ ~started /\ started'
          \/ /\ started' = started
             /\ net' = Append(net, net'[Len(net')])
             /\ UNCHANGED <<lastHandled, allMovies, display, searchValue, form, errEl,
                            errText, timers, db, nextId>>
     /\ started => started'
     /\ \A r \in Requests :
          /\ Handles(r, "GET", {"ok"}) =>
               /\ allMovies' = IF net[r].payload.isArray THEN net[r].payload.items ELSE <<>>
               /\ Shown(display') = allMovies'
               /\ display'.placeholder <=> allMovies' = <<>>
          /\ Handles(r, "GET", Failure) =>
               /\ allMovies' = allMovies
               /\ display' = display
               /\ errText' # <<>>
               /\ errText'[1] = "Error fetching movies: "
               /\ timers' = Append(timers, Delay)]_vars

\* The list response handled last carried something else than an array:
\* the cache is empty and the placeholder is shown, though the store holds
\* movies
C17_Witness ==
  /\ started
  /\ lastHandled.method = "GET" /\ lastHandled.outcome = "ok"
  /\ allMovies = <<>>
  /\ display.placeholder
  /\ Len(db) = 2

\* sub picks entries of s in s's order, each position of s at most once
RECURSIVE IsSubSequence(_, _)
IsSubSequence(sub, s) ==
  IF sub = <<>> THEN TRUE
  ELSE IF s = <<>> THEN FALSE
  ELSE IF Head(sub) = Head(s) THEN IsSubSequence(Tail(sub), Tail(s))
  ELSE IsSubSequence(sub, Tail(s))

\* C18: a search-input event sends no request and leaves the cache as it
\* is; it sets the display to filter(cache, query), whose entries are
\* entries of the cache in the cache's order, none shown twice.
C18_SearchIsLocalAndReadOnly ==
  [][\A q \in ViewQueries :
       Search(q) =>
         /\ net' = net
         /\ db' = db
         /\ allMovies' = allMovies
         /\ Shown(display') = filterMovies(allMovies, Text(q))
         /\ IsSubSequence(Shown(display'), allMovies)
         /\ Kept(allMovies, Shown(display')) =
              IF Blank(q) THEN 1..Len(allMovies)
              ELSE Holding(allMovies, Lowered(trim(q)))]_vars

\* A query has been typed that keeps the second of two cached entries only
C18_Witness ==
  /\ searchValue = <<"s","c"," ">>
  /\ Len(allMovies) = 2
  /\ Shown(display) = <<allMovies[2]>>
  /\ net = <<Done>>

\* The entries of cache with this id
EntriesOf(cache, id) == {k \in 1..Len(cache) : IdOf(cache[k]) = id}

\* C19: when the success response of a second edit of an entity is handled
\* after that of a first one, in whichever order the two were issued, the
\* cache entry for that id becomes the movie this last response carries,
\* and the cache keeps its size.
C19_LastResponseWins ==
  [][\A r \in Requests :
       (/\ Handles(r, "PATCH", {"ok"})
        /\ lastHandled.method = "PATCH"
        /\ lastHandled.outcome = "ok"
        /\ lastHandled.id = net[r].id) =>
         /\ Len(allMovies') = Len(allMovies)
         /\ EntriesOf(allMovies', IdOf(net[r].payload)) # {}
         /\ \A k \in EntriesOf(allMovies', net[r].id) : allMovies'[k] = net[r].payload
         /\ \A k \in 1..Len(allMovies) :
              IdOf(allMovies[k]) # net[r].id => allMovies'[k] = allMovies[k]]_vars

\* Two edits of movie 1 were in flight at once and both succeeded; their
\* responses were handled in the order opposite to the one the store applied
\* them in, so the cache holds the movie of the response handled last, which
\* is not the store's
C19_Witness ==
  /\ net = <<Done, Done, Done>>
  /\ lastHandled.method = "PATCH" /\ lastHandled.outcome = "ok" /\ lastHandled.id = Id(1)
  /\ Len(allMovies) = 2 /\ Len(db) = 2
  /\ IdOf(allMovies[1]) = Id(1) /\ IdOf(db[1]) = Id(1)
  /\ allMovies[1] # db[1]

\* C20: between event handlers the rows on display are entries of the
\* current cache in the cache's order, so every Edit and Delete trigger on
\* screen is bound to the id of an entry that is in the cache.
C20_DisplayWithinCache ==
  /\ IsSubSequence(Shown(display), allMovies)
  /\ \A i \in 1..Len(display.rows) : IdOf(display.rows[i].movie) \in Ids(allMovies)

\* After a create and a delete the cache holds two entries and an active
\* query shows one of them
C20_Witness ==
  /\ lastHandled.method = "DELETE" /\ lastHandled.outcome = "ok"
  /\ searchValue = <<" ","S","C">>
  /\ Len(allMovies) = 2
  /\ Len(display.rows) = 1
  /\ display.rows[1].movie = allMovies[1]

====
